---- MODULE Spec2Model ----
(***************************************************************************)
(* Model of the Hack assembler of the nand2tetris toolchain: the line      *)
(* tokenizer, the symbol table, the C-instruction encoder and the two-pass *)
(* driver (first_pass, convert_to_bin); and of the VM translator: the code *)
(* writer with its label manager, register manager and snippet library,    *)
(* and the translate driver.  Strings are sequences of one-character       *)
(* strings, so that tokenizing, slicing, formatting and parsing are        *)
(* computed character by character as the Rust code does.                  *)
(***************************************************************************)
EXTENDS Integers, Sequences, FiniteSets, TLC

VARIABLES
    pc,                  \* driver position: first_pass, convert_to_bin, done, error
    source,              \* the .asm input, a sequence of lines
    src_pos,             \* number of source lines read by first_pass
    line_counter,        \* first_pass: ROM address of the next instruction
    aliases,             \* SymbolTable.aliases
    next_mem_allocation, \* SymbolTable.next_mem_allocation
    labels,              \* SymbolTable.labels
    tmp_file,            \* scratch stream written by first_pass
    tmp_pos,             \* number of scratch lines read by convert_to_bin
    target,              \* output writer: sequence of 16-character lines
    error,               \* the ParseError returned, or "none"
    op,                  \* symbol-table harness: the last call and its result
    line,                \* tokenizer harness: the input line
    token,               \* tokenizer harness: result of tokenize(line)
    word,                \* tokenizer harness: encoded word and its bin_string
    out_stream,          \* CodeWriter.out_stream: the assembly lines written
    label_manager,       \* LabelManager.generators: a stack of LabelGenerator
    registers,           \* RegMgr.registers: name and Rc strong count of each
    namespace,           \* MemCmdWriter.namespace
    vm_pc,               \* translate driver position: translate, done; writer
    entry,               \* translate: index of the current .vm file in the sorted listing
    calls,               \* the calls made on the code writer so far
    generated,           \* the labels the label manager has returned so far
    asm,                 \* the lowering returned by the last cmd_to_asm
    vm_line,             \* VM parser harness: the input line
    vm_parsed,           \* VM parser harness: result of ParsedCmd::try_from(vm_line)
    leases               \* RegMgr harness: the Reg handles the caller holds

vars == <<pc, source, src_pos, line_counter, aliases, next_mem_allocation,
          labels, tmp_file, tmp_pos, target, error, op, line, token, word,
          out_stream, label_manager, registers, namespace, vm_pc, entry, calls,
          generated, asm, vm_line, vm_parsed, leases>>

asm_vars == <<pc, source, src_pos, line_counter, tmp_file, tmp_pos, target, error>>
sym_vars == <<aliases, next_mem_allocation, labels>>
tok_vars == <<line, token, word>>
vm_vars == <<out_stream, label_manager, registers, namespace, vm_pc, entry, calls,
             generated, asm, vm_line, vm_parsed, leases>>
harness_vars == <<vm_line, vm_parsed, leases>>

----------------------------------------------------------------------------
(* Bounds *)

MaxSrcLines == 3
MaxDigits == 5
MaxLineLen == 4
MaxSymOps == 4

----------------------------------------------------------------------------
(* u16 arithmetic *)

U16 == 65536

RECURSIVE BitOr(_, _)
BitOr(a, b) ==
    IF a = 0 THEN b
    ELSE IF b = 0 THEN a
    ELSE (IF a % 2 = 1 \/ b % 2 = 1 THEN 1 ELSE 0) + 2 * BitOr(a \div 2, b \div 2)

RECURSIVE OrAll(_)
OrAll(s) == IF s = <<>> THEN 0 ELSE BitOr(Head(s), OrAll(Tail(s)))

----------------------------------------------------------------------------
(* Characters and string helpers (str::trim, str::find, slicing) *)

Letters ==
    {"A", "B", "C", "D", "E", "F", "G", "H", "I", "J", "K", "L", "M", "N", "O", "P", "Q", "R", "S", "T", "U", "V", "W", "X", "Y", "Z",
     "a", "b", "c", "d", "e", "f", "g", "h", "i", "j", "k", "l", "m", "n", "o", "p", "q", "r", "s", "t", "u", "v", "w", "x", "y", "z"}

Digits == {"0", "1", "2", "3", "4", "5", "6", "7", "8", "9"}

DigitVal(c) ==
    CASE c = "0" -> 0 [] c = "1" -> 1 [] c = "2" -> 2 [] c = "3" -> 3
      [] c = "4" -> 4 [] c = "5" -> 5 [] c = "6" -> 6 [] c = "7" -> 7
      [] c = "8" -> 8 [] c = "9" -> 9

IsWhitespace(c) == c = " "

RECURSIVE TrimStart(_)
TrimStart(s) ==
    IF s # <<>> /\ IsWhitespace(Head(s)) THEN TrimStart(Tail(s)) ELSE s

RECURSIVE TrimEnd(_)
TrimEnd(s) ==
    IF s # <<>> /\ IsWhitespace(s[Len(s)])
    THEN TrimEnd(SubSeq(s, 1, Len(s) - 1)) ELSE s

Trim(s) == TrimEnd(TrimStart(s))

\* &s[from..to] with 0-based byte offsets (all characters are ASCII)
Slice(s, from, to) == SubSeq(s, from + 1, to)

\* &s[from..]
SliceFrom(s, from) == SubSeq(s, from + 1, Len(s))

\* str::find(char): 0-based offset of the first occurrence, or -1 for None
FindChar(s, c) ==
    IF \E i \in 1..Len(s) : s[i] = c
    THEN (CHOOSE i \in 1..Len(s) : s[i] = c /\ \A j \in 1..(i - 1) : s[j] # c) - 1
    ELSE -1

\* str::find("//")
FindComment(s) ==
    LET hit(i) == s[i] = "/" /\ s[i + 1] = "/"
    IN  IF \E i \in 1..(Len(s) - 1) : hit(i)
        THEN (CHOOSE i \in 1..(Len(s) - 1) : hit(i) /\ \A j \in 1..(i - 1) : ~hit(j)) - 1
        ELSE -1

\* str::parse::<u16>(): optional '+', then one or more digits, value below
\* 2^16; -1 stands for Err
RECURSIVE DigitsValue(_, _)
DigitsValue(s, acc) ==
    IF s = <<>> THEN acc
    ELSE IF Head(s) \notin Digits THEN -1
    ELSE IF acc * 10 + DigitVal(Head(s)) >= U16 THEN -1
    ELSE DigitsValue(Tail(s), acc * 10 + DigitVal(Head(s)))

ParseU16(s) ==
    LET digits == IF s # <<>> /\ Head(s) = "+" THEN Tail(s) ELSE s
    IN  IF digits = <<>> THEN -1 ELSE DigitsValue(digits, 0)

----------------------------------------------------------------------------
(* Tokens *)

None == <<>>
Some(x) == <<x>>

NoToken ==
    [kind |-> "NoToken", name |-> <<>>, addr |-> 0,
     dest |-> None, comp |-> <<>>, jump |-> None]

Label(n) == [NoToken EXCEPT !.kind = "Label", !.name = n]
RawAddr(v) == [NoToken EXCEPT !.kind = "RawAddr", !.addr = v]
Alias(n) == [NoToken EXCEPT !.kind = "Alias", !.name = n]
CInstruction(d, c, j) ==
    [NoToken EXCEPT !.kind = "CInstruction", !.dest = d, !.comp = c, !.jump = j]

IsAInstruction(t) == t.kind \in {"RawAddr", "Alias"}

OkNone == [res |-> "None", tok |-> NoToken, err |-> "none"]
OkSome(t) == [res |-> "Some", tok |-> t, err |-> "none"]
Err(e) == [res |-> "Err", tok |-> NoToken, err |-> e]
Panic == [res |-> "Panic", tok |-> NoToken, err |-> "panic"]

----------------------------------------------------------------------------
(* tokenizer.rs *)

is_valid_symbol(c) ==
    c \in Letters \/ c \in Digits \/ c = "_" \/ c = "." \/ c = "$" \/ c = ":"

is_valid_symbol_first_char(c) == is_valid_symbol(c) /\ c \notin Digits

strip_comments(l) ==
    IF FindComment(l) = -1 THEN l ELSE Slice(l, 0, FindComment(l))

\* The for loop of extract_label: i is the 0-based index of the character
\* examined, idx the counter after its increment.
RECURSIVE LabelLoop(_, _)
LabelLoop(l, i) ==
    LET idx == i + 1
        c == l[i + 1]
    IN  IF i >= Len(l) THEN [st |-> "exhausted", idx |-> i]
        ELSE IF c = ")" THEN [st |-> "break", idx |-> idx]
        ELSE IF ~is_valid_symbol(c) THEN [st |-> "InvalidSymbolChar", idx |-> idx]
        ELSE IF Len(l) <= idx THEN [st |-> "UnclosedLabelError", idx |-> idx]
        ELSE LabelLoop(l, idx)

\* mutant: the slice of the name runs up to idx, so it keeps the ')'
extract_label_keeps_paren(l, start_idx) ==
    IF start_idx >= Len(l) THEN Panic
    ELSE IF ~is_valid_symbol_first_char(l[start_idx + 1])
    THEN Err("InvalidSymbolFirstChar")
    ELSE LET r == LabelLoop(l, start_idx)
         IN  IF r.st \in {"InvalidSymbolChar", "UnclosedLabelError"} THEN Err(r.st)
             ELSE IF Len(l) > r.idx THEN Err("UnexpectedCharacter")
             ELSE OkSome(Label(Slice(l, start_idx, r.idx)))

extract_label(l, start_idx) ==
    IF start_idx >= Len(l) THEN Panic
    ELSE IF ~is_valid_symbol_first_char(l[start_idx + 1])
    THEN Err("InvalidSymbolFirstChar")
    ELSE LET r == LabelLoop(l, start_idx)
         IN  IF r.st \in {"InvalidSymbolChar", "UnclosedLabelError"} THEN Err(r.st)
             ELSE IF Len(l) > r.idx THEN Err("UnexpectedCharacter")
             ELSE OkSome(Label(Slice(l, start_idx, r.idx - 1)))

extract_a_instruction(l, start_idx) ==
    IF ParseU16(SliceFrom(l, start_idx)) # -1
    THEN OkSome(RawAddr(ParseU16(SliceFrom(l, start_idx))))
    ELSE IF Len(l) <= start_idx THEN Err("EmptyAInstructionError")
    ELSE IF ~is_valid_symbol_first_char(l[start_idx + 1])
    THEN Err("InvalidSymbolFirstChar")
    ELSE IF \E i \in (start_idx + 1)..Len(l) : ~is_valid_symbol(l[i])
    THEN Err("InvalidSymbolChar")
    ELSE OkSome(Alias(SliceFrom(l, start_idx)))

extract_c_instruction(l) ==
    LET eq == FindChar(l, "=")
        dest == IF eq = -1 THEN None ELSE Some(Slice(l, 0, eq))
        cmp_string == IF eq = -1 THEN l ELSE SliceFrom(l, eq + 1)
        semi == FindChar(cmp_string, ";")
        cmp == IF semi = -1 THEN Some(cmp_string) ELSE Some(Slice(cmp_string, 0, semi))
        jmp == IF semi = -1 THEN None ELSE Some(SliceFrom(cmp_string, semi + 1))
    IN  IF cmp = None THEN Err("MissingCmpInstruction")
        ELSE OkSome(CInstruction(dest, cmp[1], jmp))

\* After the trim the first character is never a space, so the loop returns
\* at its first iteration with idx = start + 1.
tokenize_with_index(l, start) ==
    LET trimmed_line == Trim(strip_comments(l))
        idx == start + 1
    IN  IF trimmed_line = <<>> THEN OkNone
        ELSE IF trimmed_line[1] = "(" THEN extract_label(trimmed_line, idx)
        ELSE IF trimmed_line[1] = "@" THEN extract_a_instruction(trimmed_line, idx)
        ELSE extract_c_instruction(trimmed_line)

tokenize(l) == tokenize_with_index(l, 0)

----------------------------------------------------------------------------
(* symbol_table.rs *)

START_ALIAS_ADDRESS == 16
SCREEN_MEM == 16384
KBD_MEM == 24576

PREDEF_ALIASES ==
    (<<"S", "P">> :> 0) @@
    (<<"L", "C", "L">> :> 1) @@
    (<<"A", "R", "G">> :> 2) @@
    (<<"T", "H", "I", "S">> :> 3) @@
    (<<"T", "H", "A", "T">> :> 4) @@
    (<<"R", "0">> :> 0) @@
    (<<"R", "1">> :> 1) @@
    (<<"R", "2">> :> 2) @@
    (<<"R", "3">> :> 3) @@
    (<<"R", "4">> :> 4) @@
    (<<"R", "5">> :> 5) @@
    (<<"R", "6">> :> 6) @@
    (<<"R", "7">> :> 7) @@
    (<<"R", "8">> :> 8) @@
    (<<"R", "9">> :> 9) @@
    (<<"R", "1", "0">> :> 10) @@
    (<<"R", "1", "1">> :> 11) @@
    (<<"R", "1", "2">> :> 12) @@
    (<<"R", "1", "3">> :> 13) @@
    (<<"R", "1", "4">> :> 14) @@
    (<<"R", "1", "5">> :> 15) @@
    (<<"S", "C", "R", "E", "E", "N">> :> SCREEN_MEM) @@
    (<<"K", "B", "D">> :> KBD_MEM)

DEST_INSTR == (<<"M">> :> 1) @@ (<<"D">> :> 2) @@ (<<"A">> :> 4)

JGT == 1
JEQ == 2
JLT == 4

JMP_INSTR ==
    (<<"J", "G", "T">> :> JGT) @@
    (<<"J", "E", "Q">> :> JEQ) @@
    (<<"J", "L", "T">> :> JLT) @@
    (<<"J", "G", "E">> :> BitOr(JGT, JEQ)) @@
    (<<"J", "L", "E">> :> BitOr(JLT, JEQ)) @@
    (<<"J", "N", "E">> :> BitOr(JLT, JGT)) @@
    (<<"J", "M", "P">> :> BitOr(BitOr(JLT, JGT), JEQ))

C6 == 1
C5 == 2
C4 == 4
C3 == 8
C2 == 16
C1 == 32
A_BIT == 64

COMP_INSTR ==
    (<<"0">> :> OrAll(<<C5, C3, C1>>)) @@
    (<<"1">> :> OrAll(<<C6, C5, C4, C3, C2, C1>>)) @@
    (<<"-", "1">> :> OrAll(<<C5, C3, C2, C1>>)) @@
    (<<"D">> :> OrAll(<<C4, C3>>)) @@
    (<<"A">> :> OrAll(<<C2, C1>>)) @@
    (<<"!", "D">> :> OrAll(<<C6, C4, C3>>)) @@
    (<<"!", "A">> :> OrAll(<<C6, C2, C1>>)) @@
    (<<"-", "D">> :> OrAll(<<C6, C5, C4, C3>>)) @@
    (<<"-", "A">> :> OrAll(<<C6, C5, C2, C1>>)) @@
    (<<"D", "+", "1">> :> OrAll(<<C6, C5, C4, C3, C2>>)) @@
    (<<"A", "+", "1">> :> OrAll(<<C6, C5, C4, C2, C1>>)) @@
    (<<"D", "-", "1">> :> OrAll(<<C5, C4, C3>>)) @@
    (<<"A", "-", "1">> :> OrAll(<<C5, C2, C1>>)) @@
    (<<"D", "+", "A">> :> C5) @@
    (<<"D", "-", "A">> :> OrAll(<<C6, C5, C2>>)) @@
    (<<"A", "-", "D">> :> OrAll(<<C6, C5, C4>>)) @@
    (<<"D", "&", "A">> :> 0) @@
    (<<"D", "|", "A">> :> OrAll(<<C6, C4, C2>>)) @@
    (<<"M">> :> OrAll(<<A_BIT, C2, C1>>)) @@
    (<<"!", "M">> :> OrAll(<<A_BIT, C6, C2, C1>>)) @@
    (<<"-", "M">> :> OrAll(<<A_BIT, C6, C5, C2, C1>>)) @@
    (<<"M", "+", "1">> :> OrAll(<<A_BIT, C6, C5, C4, C2, C1>>)) @@
    (<<"M", "-", "1">> :> OrAll(<<A_BIT, C5, C2, C1>>)) @@
    (<<"D", "+", "M">> :> OrAll(<<A_BIT, C5>>)) @@
    (<<"D", "-", "M">> :> OrAll(<<A_BIT, C6, C5, C2>>)) @@
    (<<"M", "-", "D">> :> OrAll(<<A_BIT, C6, C5, C4>>)) @@
    (<<"D", "&", "M">> :> A_BIT) @@
    (<<"D", "|", "M">> :> OrAll(<<A_BIT, C6, C4, C2>>))

START_CMP_INSTR == 57344

\* Option<u16> is None or Some(v)
Lookup(table, key) == IF key \in DOMAIN table THEN Some(table[key]) ELSE None

get_addr(als, alias) == Lookup(als, alias)

get_line_no(lbls, label) == Lookup(lbls, label)

get_jmp_instr(jmp_instr) == Lookup(JMP_INSTR, jmp_instr)

get_comp_instr(comp_instr) == Lookup(COMP_INSTR, comp_instr)

\* dest_bits.reduce(...): None on an empty string, otherwise the fold of |
\* over the per-character lookups, None as soon as one lookup is None
RECURSIVE DestReduce(_, _)
DestReduce(accum, rest) ==
    IF rest = <<>> THEN accum
    ELSE LET d == Lookup(DEST_INSTR, <<Head(rest)>>)
         IN  DestReduce(IF accum = None \/ d = None THEN None
                        ELSE Some(BitOr(accum[1], d[1])), Tail(rest))

\* mutant: a lookup of the whole mnemonic in the table of the course book,
\* which lists each destination in one order only
get_dest_instr_canonical(dest_instr) ==
    Lookup((<<"M">> :> 1) @@ (<<"D">> :> 2) @@ (<<"M", "D">> :> 3) @@ (<<"A">> :> 4) @@
           (<<"A", "M">> :> 5) @@ (<<"A", "D">> :> 6) @@ (<<"A", "M", "D">> :> 7),
           dest_instr)

get_dest_instr(dest_instr) ==
    IF dest_instr = <<>> THEN None
    ELSE DestReduce(Lookup(DEST_INSTR, <<Head(dest_instr)>>), Tail(dest_instr))

\* mutant: the allocation cursor is not advanced
add_alias_no_increment(als, next, alias) ==
    IF alias \in DOMAIN als
    THEN [aliases |-> als, next |-> next, ok |-> FALSE, val |-> 0]
    ELSE [aliases |-> als @@ (alias :> next), next |-> next,
          ok |-> TRUE, val |-> next]

\* mutant: a second declaration replaces the first
add_label_overwrite(lbls, label, line_no) ==
    [labels |-> (label :> line_no) @@ lbls, ok |-> TRUE, val |-> line_no]

\* mutant: labels share the namespace of the predefined aliases
add_label_shared_namespace(lbls, label, line_no) ==
    IF label \in DOMAIN lbls \/ label \in DOMAIN PREDEF_ALIASES
    THEN [labels |-> lbls, ok |-> FALSE, val |-> 0]
    ELSE [labels |-> lbls @@ (label :> line_no), ok |-> TRUE, val |-> line_no]

\* mutant: a name already present is given a new address
add_alias_overwriting(als, next, alias) ==
    [aliases |-> [n \in DOMAIN als \cup {alias} |-> IF n = alias THEN next ELSE als[n]],
     next |-> next + 1, ok |-> TRUE, val |-> next]

\* Result of add_alias / add_label: the new table state and Ok(v) or Err
add_alias(als, next, alias) ==
    IF alias \in DOMAIN als
    THEN [aliases |-> als, next |-> next, ok |-> FALSE, val |-> 0]
    ELSE [aliases |-> als @@ (alias :> next), next |-> next + 1,
          ok |-> TRUE, val |-> next]

add_label(lbls, label, line_no) ==
    IF label \in DOMAIN lbls
    THEN [labels |-> lbls, ok |-> FALSE, val |-> 0]
    ELSE [labels |-> lbls @@ (label :> line_no), ok |-> TRUE, val |-> line_no]

----------------------------------------------------------------------------
(* parser.rs: encoding *)

unwrap_or_default(o) == IF o = None THEN 0 ELSE o[1]

unwrap_or_empty(o) == IF o = None THEN <<>> ELSE o[1]

\* impl From<CInstWithSymbols> for u16
CInstToU16(cinstr) ==
    LET comp == unwrap_or_default(get_comp_instr(cinstr.comp))
        dest == unwrap_or_default(get_dest_instr(unwrap_or_empty(cinstr.dest)))
        jump == unwrap_or_default(get_jmp_instr(unwrap_or_empty(cinstr.jump)))
    IN  BitOr(BitOr(BitOr(START_CMP_INSTR, comp), dest), jump)

RECURSIVE BinLoop(_, _, _)
BinLoop(n, val, ret_string) ==
    IF n = 0 THEN ret_string
    ELSE BinLoop(n - 1, val \div 2,
                 <<IF val % 2 = 0 THEN "0" ELSE "1">> \o ret_string)

RECURSIVE BinLoopLsbFirst(_, _, _)
BinLoopLsbFirst(n, val, ret_string) ==
    IF n = 0 THEN ret_string
    ELSE BinLoopLsbFirst(n - 1, val \div 2,
                         ret_string \o <<IF val % 2 = 0 THEN "0" ELSE "1">>)

\* mutant: each bit is appended, so the line is least significant bit first
bin_string_lsb_first(val) == BinLoopLsbFirst(16, val, <<>>)

bin_string(val) == BinLoop(16, val, <<>>)

----------------------------------------------------------------------------
(* Input sets *)

\* every sequence over S of length at most n
StringsUpTo(S, n) == UNION {[1..k -> S] : k \in 0..n}

NoDup(s) == \A i, j \in 1..Len(s) : i # j => s[i] # s[j]

DestChars == {"A", "D", "M"}

\* the 15 destination mnemonics: distinct characters of {A, D, M}, any order
DestStrings == {s \in StringsUpTo(DestChars, 3) : s # <<>> /\ NoDup(s)}

DestOpts == {None} \cup {Some(s) : s \in DestStrings}

JumpOpts == {None} \cup {Some(j) : j \in DOMAIN JMP_INSTR}

\* the text of a C-instruction: [dest=]comp[;jump]
CLine(d, c, j) ==
    (IF d = None THEN <<>> ELSE d[1] \o <<"=">>) \o c \o
    (IF j = None THEN <<>> ELSE <<";">> \o j[1])

\* C-instruction lines over the mnemonic tables, the computation possibly
\* left out
CInstrLines ==
    {CLine(d, c, j) : d \in DestOpts, c \in DOMAIN COMP_INSTR \cup {<<>>}, j \in JumpOpts}

AddrDigits == {"0", "2", "3", "5", "6", "7", "8"}

\* @N for digit strings N
AddrLines == {<<"@">> \o n : n \in StringsUpTo(AddrDigits, MaxDigits)}

TokAlphabet == {"(", ")", "@", "=", ";", "D", "0", " ", "/"}

ShortLines == StringsUpTo(TokAlphabet, MaxLineLen)

LabelSymbols == { <<"L">>, <<"t", "1">>, <<"a", ".", "$">>, <<"_", ":", "x">> }

LabelLeads == { <<>>, <<" ">>, <<" ", " ">> }

\* what follows the closing ')' of a label line
LabelTails ==
    { <<>>, <<" ">>, <<"/", "/">>, <<"/", "/", "c">>, <<" ", " ", "/", "/", "c">>,
      <<"1">>, <<" ", "x">>, <<")">>, <<"/">>, <<" ", "/", " ", "/">>, <<"x", "/", "/">> }

\* label lines: (S) with something after it, and (S without the ')'
LabelLines ==
    {lead \o <<"(">> \o S \o <<")">> \o tail :
        lead \in LabelLeads, S \in LabelSymbols, tail \in LabelTails}
    \cup {lead \o <<"(">> \o S : lead \in LabelLeads, S \in LabelSymbols}

TokInputs == CInstrLines \cup AddrLines \cup ShortLines \cup LabelLines

AsmLines ==
    { <<"@", "x">>, <<"@", "y">>, <<"@", "L">>, <<"(", "L", ")">>,
      <<"@", "S", "C", "R", "E", "E", "N">>, <<"(", "S", "C", "R", "E", "E", "N", ")">>,
      <<"@", "5">>, <<"D", "=", "A">>, <<"0", ";", "J", "M", "P">>,
      <<" ", "/", "/", "c">>, <<"(", "L">> }

SymNames ==
    { <<"S", "C", "R", "E", "E", "N">>, <<"S", "P">>, <<"x">>, <<"y">>, <<"L">> }

MaxLineNo == 2

----------------------------------------------------------------------------
(* Idle values of the variables a specification does not use *)

NoOp == [kind |-> "none", name |-> <<>>, line_no |-> 0, ok |-> TRUE, val |-> 0, count |-> 0]
NoWord == [val |-> 0, bin |-> <<>>]
NoError == [type |-> "none", kind |-> "none"]

AsmIdle ==
    /\ pc = "idle" /\ source = <<>> /\ src_pos = 0 /\ line_counter = 0
    /\ tmp_file = <<>> /\ tmp_pos = 0 /\ target = <<>> /\ error = NoError

TokIdle == line = <<>> /\ token = OkNone /\ word = NoWord

VmIdle ==
    /\ out_stream = <<>> /\ label_manager = <<>> /\ registers = <<>>
    /\ namespace = <<>> /\ vm_pc = "idle" /\ entry = 0 /\ calls = <<>>
    /\ generated = <<>> /\ asm = <<>>
    /\ vm_line = <<>> /\ vm_parsed = <<>> /\ leases = <<>>

\* SymbolTable::new()
SymbolTableNew ==
    /\ aliases = PREDEF_ALIASES
    /\ next_mem_allocation = START_ALIAS_ADDRESS
    /\ labels = <<>>

----------------------------------------------------------------------------
(* The two-pass driver: parse = first_pass, then convert_to_bin *)

TokenError(e) == [type |-> "TokenError", kind |-> e]
SymbolTableError == [type |-> "SymbolTableError", kind |-> "AlreadySetErr"]
NonCompilableToken == [type |-> "NonCompilableToken", kind |-> "Label"]
PanicError == [type |-> "panic", kind |-> "panic"]

Fail(e) ==
    /\ pc' = "error"
    /\ error' = e

\* one iteration of the while loop of first_pass
first_pass ==
    /\ pc = "first_pass"
    /\ src_pos < Len(source)
    /\ LET trimmed_line == Trim(source[src_pos + 1])
           r == tokenize(trimmed_line)
       IN  CASE r.res = "Err" ->
                  /\ Fail(TokenError(r.err))
                  /\ UNCHANGED <<src_pos, line_counter, labels, tmp_file>>
             [] r.res = "Panic" ->
                  /\ Fail(PanicError)
                  /\ UNCHANGED <<src_pos, line_counter, labels, tmp_file>>
             [] r.res = "None" ->
                  /\ src_pos' = src_pos + 1
                  /\ UNCHANGED <<pc, error, line_counter, labels, tmp_file>>
             [] r.res = "Some" /\ r.tok.kind = "Label" ->
                  LET a == add_label(labels, r.tok.name, line_counter % U16)
                  IN  IF a.ok
                      THEN /\ labels' = a.labels
                           /\ src_pos' = src_pos + 1
                           /\ UNCHANGED <<pc, error, line_counter, tmp_file>>
                      ELSE /\ Fail(SymbolTableError)
                           /\ UNCHANGED <<src_pos, line_counter, labels, tmp_file>>
             [] r.res = "Some" /\ r.tok.kind # "Label" ->
                  /\ tmp_file' = Append(tmp_file, trimmed_line)
                  /\ line_counter' = line_counter + 1
                  /\ src_pos' = src_pos + 1
                  /\ UNCHANGED <<pc, error, labels>>
    /\ UNCHANGED <<source, aliases, next_mem_allocation, tmp_pos, target>>
    /\ UNCHANGED <<op, line, token, word, vm_vars>>

\* end of input: the scratch stream is rewound and handed to convert_to_bin
first_pass_end ==
    /\ pc = "first_pass"
    /\ src_pos = Len(source)
    /\ pc' = "convert_to_bin"
    /\ tmp_pos' = 0
    /\ UNCHANGED <<source, src_pos, line_counter, tmp_file, target, error>>
    /\ UNCHANGED <<sym_vars, op, line, token, word, vm_vars>>

\* mutant: the label map is not consulted, an unknown name is a variable
resolve_alias_no_labels(als, next, lbls, alias) ==
    IF get_addr(als, alias) # None
    THEN [aliases |-> als, next |-> next, ok |-> TRUE, val |-> get_addr(als, alias)[1]]
    ELSE add_alias(als, next, alias)

\* mutant: the label map is consulted before the alias map
resolve_alias_label_first(als, next, lbls, alias) ==
    IF get_line_no(lbls, alias) # None
    THEN [aliases |-> als, next |-> next, ok |-> TRUE, val |-> get_line_no(lbls, alias)[1]]
    ELSE IF get_addr(als, alias) # None
    THEN [aliases |-> als, next |-> next, ok |-> TRUE, val |-> get_addr(als, alias)[1]]
    ELSE add_alias(als, next, alias)

\* mutant: neither map is consulted, every name is allocated
resolve_alias_no_lookup(als, next, lbls, alias) == add_alias(als, next, alias)

\* AInstruction::Alias arm: alias map first, label map second, else allocate
resolve_alias(als, next, lbls, alias) ==
    IF get_addr(als, alias) # None
    THEN [aliases |-> als, next |-> next, ok |-> TRUE, val |-> get_addr(als, alias)[1]]
    ELSE IF get_line_no(lbls, alias) # None
    THEN [aliases |-> als, next |-> next, ok |-> TRUE, val |-> get_line_no(lbls, alias)[1]]
    ELSE add_alias(als, next, alias)

\* one iteration of the while loop of convert_to_bin
convert_to_bin ==
    /\ pc = "convert_to_bin"
    /\ tmp_pos < Len(tmp_file)
    /\ LET trimmed_line == Trim(tmp_file[tmp_pos + 1])
           r == tokenize(trimmed_line)
           emit(v) ==
               /\ target' = Append(target, bin_string(v))
               /\ tmp_pos' = tmp_pos + 1
               /\ UNCHANGED <<pc, error>>
       IN  CASE r.res = "Err" ->
                  /\ Fail(TokenError(r.err))
                  /\ UNCHANGED <<tmp_pos, target, aliases, next_mem_allocation>>
             [] r.res = "Panic" ->
                  /\ Fail(PanicError)
                  /\ UNCHANGED <<tmp_pos, target, aliases, next_mem_allocation>>
             [] r.res = "None" ->
                  /\ tmp_pos' = tmp_pos + 1
                  /\ UNCHANGED <<pc, error, target, aliases, next_mem_allocation>>
             [] r.res = "Some" /\ r.tok.kind = "RawAddr" ->
                  /\ emit(r.tok.addr)
                  /\ UNCHANGED <<aliases, next_mem_allocation>>
             [] r.res = "Some" /\ r.tok.kind = "Alias" ->
                  LET a == resolve_alias(aliases, next_mem_allocation, labels, r.tok.name)
                  IN  IF a.ok
                      THEN /\ emit(a.val)
                           /\ aliases' = a.aliases
                           /\ next_mem_allocation' = a.next
                      ELSE /\ Fail(SymbolTableError)
                           /\ UNCHANGED <<tmp_pos, target, aliases, next_mem_allocation>>
             [] r.res = "Some" /\ r.tok.kind = "CInstruction" ->
                  /\ emit(CInstToU16(r.tok))
                  /\ UNCHANGED <<aliases, next_mem_allocation>>
             [] r.res = "Some" /\ r.tok.kind = "Label" ->
                  /\ Fail(NonCompilableToken)
                  /\ UNCHANGED <<tmp_pos, target, aliases, next_mem_allocation>>
    /\ UNCHANGED <<source, src_pos, line_counter, labels, tmp_file>>
    /\ UNCHANGED <<op, line, token, word, vm_vars>>

\* end of the scratch stream: parse returns Ok(())
convert_to_bin_end ==
    /\ pc = "convert_to_bin"
    /\ tmp_pos = Len(tmp_file)
    /\ pc' = "done"
    /\ UNCHANGED <<source, src_pos, line_counter, tmp_file, tmp_pos, target, error>>
    /\ UNCHANGED <<sym_vars, op, line, token, word, vm_vars>>

Init ==
    /\ pc = "first_pass"
    /\ source \in StringsUpTo(AsmLines, MaxSrcLines)
    /\ src_pos = 0
    /\ line_counter = 0
    /\ SymbolTableNew
    /\ tmp_file = <<>>
    /\ tmp_pos = 0
    /\ target = <<>>
    /\ error = NoError
    /\ op = NoOp
    /\ TokIdle
    /\ VmIdle

Next ==
    \/ first_pass
    \/ first_pass_end
    \/ convert_to_bin
    \/ convert_to_bin_end

Spec == Init /\ [][Next]_vars

----------------------------------------------------------------------------
(* Symbol-table harness: any sequence of add_alias / add_label calls on a  *)
(* fresh table                                                             *)

AddAlias(alias) ==
    /\ op.count < MaxSymOps
    /\ LET a == add_alias(aliases, next_mem_allocation, alias)
       IN  /\ aliases' = a.aliases
           /\ next_mem_allocation' = a.next
           /\ op' = [kind |-> "add_alias", name |-> alias, line_no |-> 0,
                     ok |-> a.ok, val |-> a.val, count |-> op.count + 1]
    /\ UNCHANGED <<labels, asm_vars, tok_vars, vm_vars>>

AddLabel(label, line_no) ==
    /\ op.count < MaxSymOps
    /\ LET a == add_label(labels, label, line_no)
       IN  /\ labels' = a.labels
           /\ op' = [kind |-> "add_label", name |-> label, line_no |-> line_no,
                     ok |-> a.ok, val |-> a.val, count |-> op.count + 1]
    /\ UNCHANGED <<aliases, next_mem_allocation, asm_vars, tok_vars, vm_vars>>

SymInit ==
    /\ SymbolTableNew
    /\ op = NoOp
    /\ AsmIdle
    /\ TokIdle
    /\ VmIdle

SymNext ==
    \/ \E n \in SymNames : AddAlias(n)
    \/ \E n \in SymNames, k \in 0..MaxLineNo : AddLabel(n, k)

SymSpec == SymInit /\ [][SymNext]_vars

----------------------------------------------------------------------------
(* Tokenizer harness: tokenize one line, then encode the instruction as    *)
(* convert_to_bin does                                                     *)

TokenizeLine ==
    /\ token = OkNone
    /\ word = NoWord
    /\ tokenize(line) # OkNone
    /\ token' = tokenize(line)
    /\ UNCHANGED <<line, word, asm_vars, sym_vars, op, vm_vars>>

EncodeToken ==
    /\ word = NoWord
    /\ token.res = "Some"
    /\ token.tok.kind \in {"RawAddr", "CInstruction"}
    /\ LET v == IF token.tok.kind = "RawAddr" THEN token.tok.addr
                ELSE CInstToU16(token.tok)
       IN  word' = [val |-> v, bin |-> bin_string(v)]
    /\ UNCHANGED <<line, token, asm_vars, sym_vars, op, vm_vars>>

TokInit ==
    /\ line \in TokInputs
    /\ token = OkNone
    /\ word = NoWord
    /\ AsmIdle
    /\ SymbolTableNew
    /\ op = NoOp
    /\ VmIdle

TokNext ==
    \/ TokenizeLine
    \/ EncodeToken

TokSpec == TokInit /\ [][TokNext]_vars

----------------------------------------------------------------------------
(* VM translator: bounds *)

\* calls on the writer in a translation (set_namespace and write)
MaxCalls == 4

\* calls on the writer in the code-writer harness
MaxWrites == 3

----------------------------------------------------------------------------
(* String formatting: format!("{}", n) and str::to_uppercase *)

DigitChars == <<"0", "1", "2", "3", "4", "5", "6", "7", "8", "9">>

RECURSIVE DecimalDigits(_)
DecimalDigits(n) ==
    IF n < 10 THEN <<DigitChars[n + 1]>>
    ELSE DecimalDigits(n \div 10) \o <<DigitChars[(n % 10) + 1]>>

\* Display of an integer
to_string(n) == IF n < 0 THEN <<"-">> \o DecimalDigits(0 - n) ELSE DecimalDigits(n)

LowerCase == <<"a", "b", "c", "d", "e", "f", "g", "h", "i", "j", "k", "l", "m", "n", "o", "p", "q", "r", "s", "t", "u", "v", "w", "x", "y", "z">>
UpperCase == <<"A", "B", "C", "D", "E", "F", "G", "H", "I", "J", "K", "L", "M", "N", "O", "P", "Q", "R", "S", "T", "U", "V", "W", "X", "Y", "Z">>

to_uppercase(s) ==
    [i \in 1..Len(s) |->
        IF \E k \in 1..26 : LowerCase[k] = s[i]
        THEN UpperCase[CHOOSE k \in 1..26 : LowerCase[k] = s[i]]
        ELSE s[i]]

\* flatten(vec![...]): the concatenation of a vector of vectors of lines
RECURSIVE flatten(_)
flatten(vs) == IF vs = <<>> THEN <<>> ELSE Head(vs) \o flatten(Tail(vs))

----------------------------------------------------------------------------
(* label_manager/label_generator.rs *)

LabelGeneratorNew(prefix) ==
    [prefix |-> to_uppercase(prefix), id |-> 0, label_idx |-> <<>>, last |-> <<>>]

create(generator, n) == generator.prefix \o <<".">> \o n

\* id is a u16
generate(generator) ==
    LET id == (generator.id + 1) % U16
        last == create(generator, to_string(id))
    IN  [generator |-> [generator EXCEPT !.id = id, !.last = last], label |-> last]

\* label_idx counts in a u8
create_unique(generator, n) ==
    LET lbl == create(generator, n)
        id == ((IF lbl \in DOMAIN generator.label_idx
                THEN generator.label_idx[lbl] ELSE 0) + 1) % 256
        last == lbl \o <<".">> \o to_string(id)
    IN  [generator |-> [generator EXCEPT !.label_idx = (lbl :> id) @@ @, !.last = last],
         label |-> last]

get_prefix(generator) == generator.prefix

----------------------------------------------------------------------------
(* label_manager/manager.rs: generators is a Vec used as a stack, the       *)
(* file-level generator first                                              *)

LabelManagerNew(filename) == <<LabelGeneratorNew(filename)>>

set_filename(generators, filename) == <<LabelGeneratorNew(filename)>>

start_function(generators, function_name) ==
    LET last_label == IF generators = <<>> THEN <<>>
                      ELSE get_prefix(generators[Len(generators)])
    IN  Append(generators,
               LabelGeneratorNew(last_label \o <<".">> \o function_name \o <<"$">>))

\* Vec::pop: removes the last generator, whichever it is
end_function(generators) ==
    IF generators = <<>> THEN generators
    ELSE SubSeq(generators, 1, Len(generators) - 1)

generate_static(generators) ==
    IF generators = <<>> THEN [generators |-> generators, label |-> <<>>]
    ELSE LET r == generate(generators[1])
         IN  [generators |-> [generators EXCEPT ![1] = r.generator], label |-> r.label]

generate_label(generators, lbl, unique) ==
    IF generators = <<>> THEN [generators |-> generators, label |-> <<>>]
    ELSE LET top == Len(generators)
         IN  IF unique
             THEN LET r == create_unique(generators[top], lbl)
                  IN  [generators |-> [generators EXCEPT ![top] = r.generator],
                       label |-> r.label]
             ELSE [generators |-> generators, label |-> create(generators[top], lbl)]

----------------------------------------------------------------------------
(* reg_mgr.rs: a register is free while only the manager holds its Rc *)

RegMgrNew(start, end) ==
    [i \in 1..(end - start + 1) |->
        [name |-> <<"R">> \o to_string(start + i - 1), strong_count |-> 1]]

next_last_free(regs) ==
    LET free == {i \in 1..Len(regs) : regs[i].strong_count < 2}
    IN  IF free = {} THEN [ok |-> FALSE, reg |-> 0, registers |-> regs]
        ELSE LET i == CHOOSE j \in free : \A k \in free : j >= k
             IN  [ok |-> TRUE, reg |-> i,
                  registers |-> [regs EXCEPT ![i].strong_count = @ + 1]]

\* next(): the first register with strong_count < 2, cloned into a Reg
next(regs) ==
    LET free == {i \in 1..Len(regs) : regs[i].strong_count < 2}
    IN  IF free = {} THEN [ok |-> FALSE, reg |-> 0, registers |-> regs]
        ELSE LET i == CHOOSE j \in free : \A k \in free : j <= k
             IN  [ok |-> TRUE, reg |-> i,
                  registers |-> [regs EXCEPT ![i].strong_count = @ + 1]]

\* a Reg that is never dropped
drop_forgotten(regs, reg) == regs

\* Drop for Reg
drop(regs, reg) == [regs EXCEPT ![reg].strong_count = @ - 1]

\* #[derive(Clone)] for Reg: Rc::clone
clone(regs, reg) == [regs EXCEPT ![reg].strong_count = @ + 1]

----------------------------------------------------------------------------
(* asm_generator/register.rs *)

set_reg_to(a, b) == <<a \o <<"=">> \o b>>

set_alias(alias) == <<<<"@">> \o alias>>

set_a_reg_to_pointer == set_reg_to(<<"A">>, <<"M">>)

set_a_reg_to_alias(alias) == flatten(<<set_alias(alias), set_a_reg_to_pointer>>)

set_d_reg_to_a_reg == set_reg_to(<<"D">>, <<"A">>)

set_a_reg_to_d_reg == set_reg_to(<<"A">>, <<"D">>)

set_d_reg_to_mem == set_reg_to(<<"D">>, <<"M">>)

set_mem_to_d_reg == set_reg_to(<<"M">>, <<"D">>)

set_a_reg_to_constant(value) == <<<<"@">> \o to_string(value)>>

\* the value is an i16
set_d_reg_to_constant(value) ==
    IF value = 0 THEN <<<<"D", "=", "0">>>>
    ELSE IF value = 1 THEN <<<<"D", "=", "1">>>>
    ELSE IF value = -1 THEN <<<<"D", "=", "-", "1">>>>
    ELSE flatten(<<set_a_reg_to_constant(value), set_d_reg_to_a_reg>>)

abs(idx) == IF idx < 0 THEN 0 - idx ELSE idx

\* relative is an Option<i16>
set_d_reg_to_alias(alias, relative) ==
    IF relative # None /\ relative[1] = -1
    THEN flatten(<<set_alias(alias), <<<<"D", "=", "M", "-", "1">>>>>>)
    ELSE IF relative # None /\ relative[1] = 1
    THEN flatten(<<set_alias(alias), <<<<"D", "=", "M", "+", "1">>>>>>)
    ELSE IF relative # None /\ relative[1] # 0
    THEN flatten(<<flatten(<<set_alias(alias), set_d_reg_to_mem>>),
                   set_a_reg_to_constant(abs(relative[1])),
                   IF relative[1] > 0 THEN <<<<"D", "=", "D", "+", "A">>>> ELSE <<<<"D", "=", "D", "-", "A">>>>>>)
    ELSE flatten(<<set_alias(alias), set_d_reg_to_mem>>)

----------------------------------------------------------------------------
(* asm_generator/stack.rs *)

SEGMENT_STACK == <<"S", "P">>

dec_stack_pointer == <<<<"@", "S", "P">>, <<"M", "=", "M", "-", "1">>>>

inc_stack_pointer == <<<<"@", "S", "P">>, <<"M", "=", "M", "+", "1">>>>

push_d_reg_to_stack ==
    flatten(<<set_a_reg_to_alias(SEGMENT_STACK), <<<<"M", "=", "D">>>>, inc_stack_pointer>>)

pop_stack_to_d_reg == flatten(<<dec_stack_pointer, set_a_reg_to_pointer, set_d_reg_to_mem>>)

pop_and_prep_stack == flatten(<<pop_stack_to_d_reg, dec_stack_pointer, set_a_reg_to_pointer>>)

----------------------------------------------------------------------------
(* asm_generator/memory.rs *)

TMP_BASE_ADDR == 5
AVAILABLE_TMP_BLOCKS == 8

\* PUSH_MEM_MAP and POP_MEM_MAP
get_segment_alias(segment) ==
    CASE segment = "Local" -> <<"L", "C", "L">>
      [] segment = "Argument" -> <<"A", "R", "G">>
      [] segment = "This" -> <<"T", "H", "I", "S">>
      [] segment = "That" -> <<"T", "H", "A", "T">>
      [] segment = "Constant" -> <<"S", "P">>

set_d_reg_to_segment_idx(segment, idx) ==
    flatten(<<set_d_reg_to_alias(get_segment_alias(segment), None),
              IF idx > 0
              THEN flatten(<<set_a_reg_to_constant(idx), <<<<"D", "=", "D", "+", "A">>>>>>)
              ELSE <<>>>>)

copy_d_reg_to_mem(regs, reg) ==
    flatten(<<set_a_reg_to_alias(regs[reg].name), set_mem_to_d_reg>>)

Lowered(lines) == [ok |-> TRUE, asm |-> lines, err |-> "none"]
Failed(e) == [ok |-> FALSE, asm |-> <<>>, err |-> e]

\* the result of a function that leases registers, with the manager as it is
\* once the function has returned and its Reg values are dropped (after),
\* and as it was while the function held the most leases (peak)
Leases(r, after, peak) ==
    [ok |-> r.ok, asm |-> r.asm, err |-> r.err, registers |-> after, peak |-> peak]

static_alias(ns, idx) == ns \o <<".">> \o to_string(idx)

\* mutant: temp 8 passes the bounds check
push_to_stack_nine_blocks(ns, segment, idx) ==
    LET tail == push_d_reg_to_stack
    IN  CASE segment = "Constant" ->
                 Lowered(flatten(<<set_d_reg_to_constant(idx), tail>>))
          [] segment = "Static" ->
                 Lowered(flatten(<<set_d_reg_to_alias(static_alias(ns, idx), None), tail>>))
          [] segment = "Temp" ->
                 IF idx > AVAILABLE_TMP_BLOCKS THEN Failed("OutOfBoundsPushError")
                 ELSE Lowered(flatten(<<set_a_reg_to_constant(TMP_BASE_ADDR + idx),
                                        set_d_reg_to_mem, tail>>))
          [] segment = "Pointer" ->
                 IF idx > 1 THEN Failed("OutOfBoundsPushError")
                 ELSE Lowered(flatten(<<
                          set_d_reg_to_alias(
                              get_segment_alias(IF idx = 0 THEN "This" ELSE "That"), None),
                          tail>>))
          [] OTHER ->
                 Lowered(flatten(<<set_d_reg_to_segment_idx(segment, idx),
                                   set_a_reg_to_d_reg, set_d_reg_to_mem, tail>>))

push_to_stack(ns, segment, idx) ==
    LET tail == push_d_reg_to_stack
    IN  CASE segment = "Constant" ->
                 Lowered(flatten(<<set_d_reg_to_constant(idx), tail>>))
          [] segment = "Static" ->
                 Lowered(flatten(<<set_d_reg_to_alias(static_alias(ns, idx), None), tail>>))
          [] segment = "Temp" ->
                 IF idx > AVAILABLE_TMP_BLOCKS - 1 THEN Failed("OutOfBoundsPushError")
                 ELSE Lowered(flatten(<<set_a_reg_to_constant(TMP_BASE_ADDR + idx),
                                        set_d_reg_to_mem, tail>>))
          [] segment = "Pointer" ->
                 IF idx > 1 THEN Failed("OutOfBoundsPushError")
                 ELSE Lowered(flatten(<<
                          set_d_reg_to_alias(
                              get_segment_alias(IF idx = 0 THEN "This" ELSE "That"), None),
                          tail>>))
          [] OTHER ->
                 Lowered(flatten(<<set_d_reg_to_segment_idx(segment, idx),
                                   set_a_reg_to_d_reg, set_d_reg_to_mem, tail>>))

\* PushSegment::Constant with the i16 of ParsedCmd::PushConstant
push_constant(value) == flatten(<<set_d_reg_to_constant(value), push_d_reg_to_stack>>)

\* tmp is leased first and dropped when the function returns, on every path
pop_stack_to(regs, ns, segment, idx) ==
    LET tmp == next(regs)
        lowering ==
             CASE segment = "Static" ->
                      Lowered(flatten(<<pop_stack_to_d_reg, set_alias(static_alias(ns, idx)),
                                        set_mem_to_d_reg>>))
               [] segment = "Temp" ->
                      IF idx > AVAILABLE_TMP_BLOCKS - 1 THEN Failed("OutOfBoundsPopError")
                      ELSE Lowered(flatten(<<pop_stack_to_d_reg,
                                             set_a_reg_to_constant(TMP_BASE_ADDR + idx),
                                             set_mem_to_d_reg>>))
               [] segment = "Pointer" ->
                      IF idx > 1 THEN Failed("OutOfBoundsPopError")
                      ELSE Lowered(flatten(<<
                               pop_stack_to_d_reg,
                               set_alias(get_segment_alias(IF idx = 0 THEN "This" ELSE "That")),
                               set_mem_to_d_reg>>))
               [] OTHER ->
                      Lowered(flatten(<<set_d_reg_to_segment_idx(segment, idx),
                                        set_alias(tmp.registers[tmp.reg].name),
                                        set_mem_to_d_reg,
                                        pop_stack_to_d_reg,
                                        copy_d_reg_to_mem(tmp.registers, tmp.reg)>>))
    IN  IF ~tmp.ok THEN Leases(Failed("NoFreeTmpSpace"), regs, regs)
        ELSE Leases(lowering, drop(tmp.registers, tmp.reg), tmp.registers)

----------------------------------------------------------------------------
(* asm_generator/marker.rs and asm_generator/flow.rs.  A lowering that      *)
(* uses the label manager returns the lines, the manager's generators and  *)
(* the labels it was given.                                                *)

WithLabels(lines, generators, lbls) ==
    [ok |-> TRUE, asm |-> lines, err |-> "none", generators |-> generators, labels |-> lbls]

\* a lowering that leases no register leaves the manager as it is
NoLeases(r, regs) ==
    [ok |-> r.ok, asm |-> r.asm, err |-> r.err, generators |-> r.generators,
     labels |-> r.labels, registers |-> regs, peak |-> regs]

\* the result of the memory writer or of return_cmd, which take no label
WithGenerators(r, generators) ==
    [ok |-> r.ok, asm |-> r.asm, err |-> r.err, generators |-> generators,
     labels |-> <<>>, registers |-> r.registers, peak |-> r.peak]

label(lbl) == <<<<"(">> \o lbl \o <<")">>>>

RECURSIVE initialize_locals(_)
initialize_locals(local_count) ==
    IF local_count > 0
    THEN flatten(<<set_d_reg_to_constant(0), push_d_reg_to_stack>>)
         \o initialize_locals(local_count - 1)
    ELSE <<>>

function(fname, local_count) == flatten(<<label(fname), initialize_locals(local_count)>>)

marker(marker_cmd, generators) ==
    IF marker_cmd.op = "Label"
    THEN WithLabels(label(marker_cmd.name), generators, <<>>)
    ELSE WithLabels(function(marker_cmd.name, marker_cmd.n),
                    start_function(generators, marker_cmd.name), <<>>)

\* Display for CmpVal and JmpCmd
jmp(jmp_cmd, cmp_val) == <<cmp_val \o <<";">> \o jmp_cmd>>

goto(lbl) == flatten(<<set_alias(lbl), jmp(<<"J", "M", "P">>, <<"0">>)>>)

if_goto(lbl) ==
    flatten(<<pop_stack_to_d_reg, set_alias(lbl), jmp(<<"J", "G", "T">>, <<"D">>), jmp(<<"J", "L", "T">>, <<"D">>)>>)

generate_retun(lbl) == flatten(<<set_alias(lbl), set_d_reg_to_a_reg, push_d_reg_to_stack>>)

\* mutant: THIS and THAT are pushed in the opposite order
save_local_frame_that_first ==
    flatten(<<set_d_reg_to_segment_idx("Local", 0), push_d_reg_to_stack,
              set_d_reg_to_segment_idx("Argument", 0), push_d_reg_to_stack,
              set_d_reg_to_segment_idx("That", 0), push_d_reg_to_stack,
              set_d_reg_to_segment_idx("This", 0), push_d_reg_to_stack>>)

save_local_frame ==
    flatten(<<set_d_reg_to_segment_idx("Local", 0), push_d_reg_to_stack,
              set_d_reg_to_segment_idx("Argument", 0), push_d_reg_to_stack,
              set_d_reg_to_segment_idx("This", 0), push_d_reg_to_stack,
              set_d_reg_to_segment_idx("That", 0), push_d_reg_to_stack>>)

\* mutant: the arguments are not counted
reset_args_for_call_ignoring_args(arg_count) ==
    flatten(<<set_d_reg_to_alias(SEGMENT_STACK, Some(0 - 5)),
              set_alias(get_segment_alias("Argument")),
              set_mem_to_d_reg>>)

\* arg_count is a u8, widened to i16 before the addition
reset_args_for_call(arg_count) ==
    flatten(<<set_d_reg_to_alias(SEGMENT_STACK, Some(0 - (5 + arg_count))),
              set_alias(get_segment_alias("Argument")),
              set_mem_to_d_reg>>)

call(fname, arg_count, generators) ==
    LET ret_label == generate_label(generators, fname \o <<"$", "r", "e", "t">>, TRUE)
    IN  WithLabels(flatten(<<generate_retun(ret_label.label),
                             save_local_frame,
                             reset_args_for_call(arg_count),
                             set_d_reg_to_alias(SEGMENT_STACK, None),
                             set_alias(get_segment_alias("Local")),
                             set_mem_to_d_reg,
                             goto(fname),
                             label(ret_label.label)>>),
                   ret_label.generators, <<ret_label.label>>)

set_segment_addr(reg_name, steps_back, segment) ==
    flatten(<<IF steps_back = 1
              THEN flatten(<<set_alias(reg_name), <<<<"A", "=", "M", "-", "1">>>>>>)
              ELSE flatten(<<set_d_reg_to_alias(reg_name, None),
                             set_a_reg_to_constant(steps_back),
                             <<<<"A", "=", "D", "-", "A">>>>>>),
              set_d_reg_to_mem,
              set_alias(get_segment_alias(segment)),
              set_mem_to_d_reg>>)

\* mutant: the return value is stored into *ARG before the return address
\* is copied out of the frame
return_cmd_pop_first(regs, ns) ==
    LET lcl == next(regs)
        ret_add == next(lcl.registers)
        popped == pop_stack_to(ret_add.registers, ns, "Argument", 0)
        name_of(r) == r.registers[r.reg].name
        released == drop(drop(popped.registers, ret_add.reg), lcl.reg)
    IN  IF ~lcl.ok THEN Leases(Failed("NoFreeTmpSpace"), regs, regs)
        ELSE IF ~ret_add.ok
        THEN Leases(Failed("NoFreeTmpSpace"), drop(lcl.registers, lcl.reg), lcl.registers)
        ELSE IF ~popped.ok THEN Leases(Failed(popped.err), released, popped.peak)
        ELSE Leases(Lowered(flatten(<<
                 set_d_reg_to_segment_idx("Local", 0),
                 set_alias(name_of(lcl)),
                 set_mem_to_d_reg,
                 popped.asm,
                 set_d_reg_to_alias(name_of(lcl), None),
                 set_a_reg_to_constant(5),
                 <<<<"A", "=", "D", "-", "A">>>>,
                 set_d_reg_to_mem,
                 set_alias(name_of(ret_add)),
                 set_mem_to_d_reg,
                 set_d_reg_to_segment_idx("Argument", 1),
                 set_alias(SEGMENT_STACK),
                 set_mem_to_d_reg,
                 set_segment_addr(name_of(lcl), 1, "That"),
                 set_segment_addr(name_of(lcl), 2, "This"),
                 set_segment_addr(name_of(lcl), 3, "Argument"),
                 set_segment_addr(name_of(lcl), 4, "Local"),
                 set_a_reg_to_alias(name_of(ret_add)),
                 jmp(<<"J", "M", "P">>, <<"0">>)>>)), released, popped.peak)

\* lcl and ret_add are leased for the whole function, the lease of
\* pop_stack_to is the third; all are dropped on return
return_cmd(regs, ns) ==
    LET lcl == next(regs)
        ret_add == next(lcl.registers)
        popped == pop_stack_to(ret_add.registers, ns, "Argument", 0)
        name_of(r) == r.registers[r.reg].name
        released == drop(drop(popped.registers, ret_add.reg), lcl.reg)
    IN  IF ~lcl.ok THEN Leases(Failed("NoFreeTmpSpace"), regs, regs)
        ELSE IF ~ret_add.ok
        THEN Leases(Failed("NoFreeTmpSpace"), drop(lcl.registers, lcl.reg), lcl.registers)
        ELSE IF ~popped.ok THEN Leases(Failed(popped.err), released, popped.peak)
        ELSE Leases(Lowered(flatten(<<
                 set_d_reg_to_segment_idx("Local", 0),
                 set_alias(name_of(lcl)),
                 set_mem_to_d_reg,
                 set_a_reg_to_constant(5),
                 <<<<"A", "=", "D", "-", "A">>>>,
                 set_d_reg_to_mem,
                 set_alias(name_of(ret_add)),
                 set_mem_to_d_reg,
                 popped.asm,
                 set_d_reg_to_segment_idx("Argument", 1),
                 set_alias(SEGMENT_STACK),
                 set_mem_to_d_reg,
                 set_segment_addr(name_of(lcl), 1, "That"),
                 set_segment_addr(name_of(lcl), 2, "This"),
                 set_segment_addr(name_of(lcl), 3, "Argument"),
                 set_segment_addr(name_of(lcl), 4, "Local"),
                 set_a_reg_to_alias(name_of(ret_add)),
                 jmp(<<"J", "M", "P">>, <<"0">>)>>)), released, popped.peak)

flow(flow_cmd, generators, regs, ns) ==
    CASE flow_cmd.op = "Goto" ->
             NoLeases(WithLabels(goto(flow_cmd.name), generators, <<>>), regs)
      [] flow_cmd.op = "IfGoto" ->
             NoLeases(WithLabels(if_goto(flow_cmd.name), generators, <<>>), regs)
      [] flow_cmd.op = "Call" -> NoLeases(call(flow_cmd.name, flow_cmd.n, generators), regs)
      [] flow_cmd.op = "Return" ->
             WithGenerators(return_cmd(regs, ns), end_function(generators))

----------------------------------------------------------------------------
(* asm_generator/arithmetic.rs *)

ADD_SYMBOL == "+"
NEG_SYMBOL == "-"
NOT_SYMBOL == "!"
AND_SYMBOL == "&"
OR_SYMBOL == "|"

bin_math_to_asm(symbol) ==
    flatten(<<pop_and_prep_stack, <<<<"M", "=", "M">> \o <<symbol>> \o <<"D">>>>, inc_stack_pointer>>)

uni_math_to_asm(symbol) ==
    flatten(<<dec_stack_pointer, set_a_reg_to_pointer,
              <<<<"M", "=">> \o <<symbol>> \o <<"M">>>>, inc_stack_pointer>>)

\* the writer hands its LabelManager as the label generator; generate() on
\* it is generate_static (the labels of the writer's tests: ASM.1, ASM.2)
cmp_math_to_asm(cmp, generators) ==
    LET jmp_cmd == CASE cmp = "Eq" -> <<"J", "E", "Q">> [] cmp = "Lt" -> <<"J", "L", "T">> [] cmp = "Gt" -> <<"J", "G", "T">>
        true_lbl == generate_static(generators)
        false_lbl == generate_static(true_lbl.generators)
    IN  WithLabels(flatten(<<pop_and_prep_stack,
                             <<<<"D", "=", "M", "-", "D">>>>,
                             set_alias(true_lbl.label),
                             jmp(jmp_cmd, <<"D">>),
                             <<<<"D", "=", "0">>>>,
                             set_alias(false_lbl.label),
                             jmp(<<"J", "M", "P">>, <<"0">>),
                             label(true_lbl.label),
                             <<<<"D", "=", "-", "1">>>>,
                             label(false_lbl.label),
                             push_d_reg_to_stack>>),
                   false_lbl.generators, <<true_lbl.label, false_lbl.label>>)

arithmetic(arr, generators) ==
    CASE arr = "Add" -> WithLabels(bin_math_to_asm(ADD_SYMBOL), generators, <<>>)
      [] arr = "Sub" -> WithLabels(bin_math_to_asm(NEG_SYMBOL), generators, <<>>)
      [] arr = "And" -> WithLabels(bin_math_to_asm(AND_SYMBOL), generators, <<>>)
      [] arr = "Or" -> WithLabels(bin_math_to_asm(OR_SYMBOL), generators, <<>>)
      [] arr = "Neg" -> WithLabels(uni_math_to_asm(NEG_SYMBOL), generators, <<>>)
      [] arr = "Not" -> WithLabels(uni_math_to_asm(NOT_SYMBOL), generators, <<>>)
      [] arr \in {"Eq", "Gt", "Lt"} -> cmp_math_to_asm(arr, generators)

----------------------------------------------------------------------------
(* code_writer/writer.rs.  A CodeWriter is the record of its fields;       *)
(* a ParsedCmd is [kind, op, name, n], a Command [original, parsed].       *)

ParsedCmd(kind, o, fname, n) == [kind |-> kind, op |-> o, name |-> fname, n |-> n]

Command(original, parsed) == [original |-> original, parsed |-> parsed]

CodeWriterNew ==
    [out_stream |-> <<>>,
     label_manager |-> LabelManagerNew(<<"a", "s", "m">>),
     registers |-> RegMgrNew(13, 15),
     namespace |-> to_uppercase(<<"a", "s", "m">>)]

set_namespace(w, ns) ==
    [w EXCEPT !.namespace = to_uppercase(ns),
              !.label_manager = set_filename(@, ns)]

comment(w, text) == [w EXCEPT !.out_stream = Append(@, <<"/", "/">> \o text)]

\* Ok(None) for Noop; ParsedCmd::Terminate, which translate writes last, has
\* no arm in this writer and gets no lines
cmd_to_asm(w, cmd) ==
    CASE cmd.kind = "Arithmetic" ->
             NoLeases(arithmetic(cmd.op, w.label_manager), w.registers)
      [] cmd.kind = "PushConstant" ->
             NoLeases(WithLabels(push_constant(cmd.n), w.label_manager, <<>>), w.registers)
      [] cmd.kind = "Push" ->
             WithGenerators(Leases(push_to_stack(w.namespace, cmd.op, cmd.n),
                                   w.registers, w.registers),
                            w.label_manager)
      [] cmd.kind = "Pop" ->
             WithGenerators(pop_stack_to(w.registers, w.namespace, cmd.op, cmd.n),
                            w.label_manager)
      [] cmd.kind = "Flow" -> flow(cmd, w.label_manager, w.registers, w.namespace)
      [] cmd.kind = "Marker" -> NoLeases(marker(cmd, w.label_manager), w.registers)
      [] OTHER -> NoLeases(WithLabels(<<>>, w.label_manager, <<>>), w.registers)

\* the comment, then the lines of the lowering; the result also carries the
\* lowering and the labels the label manager returned for it
Written(commented, r) ==
    [writer |-> [commented EXCEPT !.out_stream = @ \o r.asm,
                                  !.label_manager = r.generators,
                                  !.registers = r.registers],
     ok |-> r.ok, asm |-> r.asm, labels |-> r.labels, err |-> r.err,
     peak |-> r.peak]

write(w, cmd) == Written(comment(w, cmd.original), cmd_to_asm(w, cmd.parsed))

CallSysInit ==
    Command(<<"c", "a", "l", "l", " ", "S", "y", "s", ".", "i", "n", "i", "t", " ", "0">>, ParsedCmd("Flow", "Call", <<"S", "y", "s", ".", "i", "n", "i", "t">>, 0))

init(w) ==
    write([w EXCEPT !.out_stream = @ \o <<<<"@", "2", "5", "6">>, <<"D", "=", "A">>, <<"@", "S", "P">>, <<"M", "=", "D">>>>], CallSysInit)

----------------------------------------------------------------------------
(* parser.rs, push/pop arm: the third token is parsed as a HackMemSize     *)
(* (u16); -1 stands for the ParseIntError that becomes                     *)
(* InvalidMemoryLocation                                                   *)

parse_location(location) == ParseU16(location)

----------------------------------------------------------------------------
(* The VM commands and file names the specifications draw from *)

VmCall(fname, k) ==
    Command(<<"c", "a", "l", "l", " ">> \o fname \o <<" ">> \o to_string(k), ParsedCmd("Flow", "Call", fname, k))

VmFunction(fname, k) ==
    Command(<<"f", "u", "n", "c", "t", "i", "o", "n", " ">> \o fname \o <<" ">> \o to_string(k),
            ParsedCmd("Marker", "Function", fname, k))

VmReturn == Command(<<"r", "e", "t", "u", "r", "n">>, ParsedCmd("Flow", "Return", <<>>, 0))

VmLabel(l) == Command(<<"l", "a", "b", "e", "l", " ">> \o l, ParsedCmd("Marker", "Label", l, 0))

VmGoto(l) == Command(<<"g", "o", "t", "o", " ">> \o l, ParsedCmd("Flow", "Goto", l, 0))

VmIfGoto(l) == Command(<<"i", "f", "-", "g", "o", "t", "o", " ">> \o l, ParsedCmd("Flow", "IfGoto", l, 0))

VmEq == Command(<<"e", "q">>, ParsedCmd("Arithmetic", "Eq", <<>>, 0))
VmGt == Command(<<"g", "t">>, ParsedCmd("Arithmetic", "Gt", <<>>, 0))
VmLt == Command(<<"l", "t">>, ParsedCmd("Arithmetic", "Lt", <<>>, 0))

VmPushConstant(n) ==
    Command(<<"p", "u", "s", "h", " ", "c", "o", "n", "s", "t", "a", "n", "t", " ">> \o to_string(n), ParsedCmd("PushConstant", "Constant", <<>>, n))

VmTerminate == Command(<<>>, ParsedCmd("Terminate", "Terminate", <<>>, 0))

\* the commands of the call/return and label claims
VmCommands ==
    {VmCall(<<"F">>, 0), VmCall(<<"F">>, 2), VmFunction(<<"F">>, 0), VmFunction(<<"G">>, 1),
     VmReturn, VmEq, VmLabel(<<"L">>), VmGoto(<<"L">>), VmIfGoto(<<"L">>)}

\* the .vm files of a directory, as entries.sort() orders their paths
VmFiles == <<<<"F", "o", "o">>, <<"f", "o", "o">>>>

----------------------------------------------------------------------------
(* translator.rs and main.rs: create_code_writer, then translate *)

Writer ==
    [out_stream |-> out_stream, label_manager |-> label_manager,
     registers |-> registers, namespace |-> namespace]

SetWriter(w) ==
    /\ out_stream' = w.out_stream
    /\ label_manager' = w.label_manager
    /\ registers' = w.registers
    /\ namespace' = w.namespace

WriterIs(w) ==
    /\ out_stream = w.out_stream
    /\ label_manager = w.label_manager
    /\ registers = w.registers
    /\ namespace = w.namespace

Called(o, ns, cmd) == [op |-> o, namespace |-> ns, cmd |-> cmd]

\* parse_file, up to its loop: the next .vm file of the listing is opened
\* and the writer is given its stem as namespace
parse_file ==
    /\ vm_pc = "translate"
    /\ \E i \in (entry + 1)..Len(VmFiles) :
           /\ entry' = i
           /\ SetWriter(set_namespace(Writer, VmFiles[i]))
           /\ calls' = Append(calls, Called("set_namespace", VmFiles[i], VmTerminate))
    /\ UNCHANGED <<vm_pc, generated, asm>>
    /\ UNCHANGED <<asm_vars, sym_vars, tok_vars, op, harness_vars>>

\* one iteration of the loop of parse_file: the next command of the file
write_command ==
    /\ vm_pc = "translate"
    /\ entry > 0
    /\ Len(calls) < MaxCalls
    /\ \E cmd \in VmCommands :
           LET r == write(Writer, cmd)
           IN  /\ SetWriter(r.writer)
               /\ asm' = r.asm
               /\ generated' = generated \o r.labels
               /\ calls' = Append(calls, Called("write", <<>>, cmd))
               /\ vm_pc' = IF r.ok THEN vm_pc ELSE "error"
    /\ UNCHANGED entry
    /\ UNCHANGED <<asm_vars, sym_vars, tok_vars, op, harness_vars>>

\* after the last file: translate writes ParsedCmd::Terminate
translate_end ==
    /\ vm_pc = "translate"
    /\ LET r == write(Writer, VmTerminate)
       IN  /\ SetWriter(r.writer)
           /\ asm' = r.asm
           /\ generated' = generated \o r.labels
           /\ calls' = Append(calls, Called("write", <<>>, VmTerminate))
    /\ vm_pc' = "done"
    /\ UNCHANGED entry
    /\ UNCHANGED <<asm_vars, sym_vars, tok_vars, op, harness_vars>>

\* main: create_code_writer builds the writer with CodeWriter::new
VmInit ==
    /\ vm_pc = "translate"
    /\ WriterIs(CodeWriterNew)
    /\ entry = 0
    /\ calls = <<>>
    /\ generated = <<>>
    /\ asm = <<>>
    /\ vm_line = <<>> /\ vm_parsed = <<>> /\ leases = <<>>
    /\ AsmIdle /\ SymbolTableNew /\ TokIdle /\ op = NoOp

VmNext ==
    \/ parse_file
    \/ write_command
    \/ translate_end

VmSpec == VmInit /\ [][VmNext]_vars

----------------------------------------------------------------------------
(* Code-writer harness: any sequence of init, set_namespace and write      *)
(* calls on a fresh CodeWriter                                             *)

CallInit ==
    /\ Len(calls) < MaxWrites
    /\ LET r == init(Writer)
       IN  /\ SetWriter(r.writer)
           /\ asm' = r.asm
           /\ generated' = generated \o r.labels
           /\ calls' = Append(calls, Called("init", <<>>, CallSysInit))
    /\ UNCHANGED <<vm_pc, entry>>
    /\ UNCHANGED <<asm_vars, sym_vars, tok_vars, op, harness_vars>>

CallSetNamespace(ns) ==
    /\ Len(calls) < MaxWrites
    /\ SetWriter(set_namespace(Writer, ns))
    /\ calls' = Append(calls, Called("set_namespace", ns, VmTerminate))
    /\ UNCHANGED <<vm_pc, entry, generated, asm>>
    /\ UNCHANGED <<asm_vars, sym_vars, tok_vars, op, harness_vars>>

CallWrite(cmd) ==
    /\ Len(calls) < MaxWrites
    /\ LET r == write(Writer, cmd)
       IN  /\ SetWriter(r.writer)
           /\ asm' = r.asm
           /\ generated' = generated \o r.labels
           /\ calls' = Append(calls, Called("write", <<>>, cmd))
    /\ UNCHANGED <<vm_pc, entry>>
    /\ UNCHANGED <<asm_vars, sym_vars, tok_vars, op, harness_vars>>

WriterInit ==
    /\ vm_pc = "writer"
    /\ WriterIs(CodeWriterNew)
    /\ entry = 0
    /\ calls = <<>>
    /\ generated = <<>>
    /\ asm = <<>>
    /\ vm_line = <<>> /\ vm_parsed = <<>> /\ leases = <<>>
    /\ AsmIdle /\ SymbolTableNew /\ TokIdle /\ op = NoOp

WriterNext ==
    \/ CallInit
    \/ \E i \in 1..Len(VmFiles) : CallSetNamespace(VmFiles[i])
    \/ \E cmd \in VmCommands : CallWrite(cmd)

WriterSpec == WriterInit /\ [][WriterNext]_vars

----------------------------------------------------------------------------
(* Lowering harness: a fresh CodeWriter is given a few commands, as the    *)
(* tests of writer.rs do; the commands range over argument counts and      *)
(* constants                                                               *)

MaxLowered == 2

ArgCounts == {0, 1, 2, 255}

PushedConstants == {5, 0, 1, -1, -5, 2, 32767, -32768}

LowerCommands ==
    {VmCall(<<"F">>, k) : k \in ArgCounts}
    \cup {VmCall(<<"S", "y", "s", ".", "i", "n", "i", "t">>, 0), VmFunction(<<"F">>, 0), VmReturn, VmEq, VmGt, VmLt}
    \cup {VmPushConstant(n) : n \in PushedConstants}

LowerInit == WriterInit

LowerWrite(cmd) ==
    /\ Len(calls) < MaxLowered
    /\ LET r == write(Writer, cmd)
       IN  /\ SetWriter(r.writer)
           /\ asm' = r.asm
           /\ generated' = generated \o r.labels
           /\ calls' = Append(calls, Called("write", <<>>, cmd))
    /\ UNCHANGED <<vm_pc, entry>>
    /\ UNCHANGED <<asm_vars, sym_vars, tok_vars, op, harness_vars>>

LowerNext == \E cmd \in LowerCommands : LowerWrite(cmd)

LowerSpec == LowerInit /\ [][LowerNext]_vars

----------------------------------------------------------------------------
(* Memory and arithmetic harness: a fresh CodeWriter is given push, pop,   *)
(* arithmetic and return commands; the indices cross the bounds of temp    *)
(* and pointer                                                             *)

SegmentName(segment) ==
    CASE segment = "Temp" -> <<"t", "e", "m", "p">>
      [] segment = "Pointer" -> <<"p", "o", "i", "n", "t", "e", "r">>
      [] segment = "Static" -> <<"s", "t", "a", "t", "i", "c">>
      [] segment = "Local" -> <<"l", "o", "c", "a", "l">>
      [] segment = "Argument" -> <<"a", "r", "g", "u", "m", "e", "n", "t">>
      [] segment = "This" -> <<"t", "h", "i", "s">>
      [] segment = "That" -> <<"t", "h", "a", "t">>

VmPush(segment, idx) ==
    Command(<<"p", "u", "s", "h", " ">> \o SegmentName(segment) \o <<" ">> \o to_string(idx),
            ParsedCmd("Push", segment, <<>>, idx))

VmPop(segment, idx) ==
    Command(<<"p", "o", "p", " ">> \o SegmentName(segment) \o <<" ">> \o to_string(idx),
            ParsedCmd("Pop", segment, <<>>, idx))

VmArithmetic(text, arr) == Command(text, ParsedCmd("Arithmetic", arr, <<>>, 0))

TempIndices == {0, 7, 8, 65535}

PointerIndices == {0, 1, 2, 65535}

MemCommands ==
    {VmPush("Temp", i) : i \in TempIndices} \cup {VmPop("Temp", i) : i \in TempIndices}
    \cup {VmPush("Pointer", i) : i \in PointerIndices}
    \cup {VmPop("Pointer", i) : i \in PointerIndices}
    \cup {VmPush("Static", 1), VmPop("Static", 1), VmPush("Local", 2), VmPop("Argument", 2)}
    \cup {VmArithmetic(<<"a", "d", "d">>, "Add"), VmArithmetic(<<"s", "u", "b">>, "Sub"),
          VmArithmetic(<<"a", "n", "d">>, "And"), VmArithmetic(<<"o", "r">>, "Or"),
          VmArithmetic(<<"n", "e", "g">>, "Neg"), VmArithmetic(<<"n", "o", "t">>, "Not"), VmEq, VmReturn}

MemNext == \E cmd \in MemCommands : LowerWrite(cmd)

MemSpec == WriterInit /\ [][MemNext]_vars

----------------------------------------------------------------------------
(* parser.rs: TryFrom<&str> for ParsedCmd and the Parser iterator.  A      *)
(* result is [ok, cmd, err, ctx]: Ok(cmd), or Err(err) carrying ctx         *)

STR_ARITHMETIC ==
    (<<"a", "d", "d">> :> "Add") @@ (<<"s", "u", "b">> :> "Sub") @@ (<<"n", "e", "g">> :> "Neg")
    @@ (<<"e", "q">> :> "Eq") @@ (<<"g", "t">> :> "Gt") @@ (<<"l", "t">> :> "Lt")
    @@ (<<"a", "n", "d">> :> "And") @@ (<<"o", "r">> :> "Or") @@ (<<"n", "o", "t">> :> "Not")

STR_PUSH_SEGMENT ==
    (<<"a", "r", "g", "u", "m", "e", "n", "t">> :> "Argument") @@ (<<"l", "o", "c", "a", "l">> :> "Local") @@ (<<"s", "t", "a", "t", "i", "c">> :> "Static")
    @@ (<<"c", "o", "n", "s", "t", "a", "n", "t">> :> "Constant") @@ (<<"t", "h", "i", "s">> :> "This") @@ (<<"t", "h", "a", "t">> :> "That")
    @@ (<<"p", "o", "i", "n", "t", "e", "r">> :> "Pointer") @@ (<<"t", "e", "m", "p">> :> "Temp")

STR_POP_SEGMENT_with_constant == STR_PUSH_SEGMENT

STR_POP_SEGMENT ==
    (<<"a", "r", "g", "u", "m", "e", "n", "t">> :> "Argument") @@ (<<"l", "o", "c", "a", "l">> :> "Local") @@ (<<"s", "t", "a", "t", "i", "c">> :> "Static")
    @@ (<<"t", "h", "i", "s">> :> "This") @@ (<<"t", "h", "a", "t">> :> "That")
    @@ (<<"p", "o", "i", "n", "t", "e", "r">> :> "Pointer") @@ (<<"t", "e", "m", "p">> :> "Temp")

IsAsciiWhitespace(c) == c \in {" ", "\t", "\n", "\r"}

\* str::split_ascii_whitespace, collected
RECURSIVE SplitTokens(_, _, _)
SplitTokens(s, cur, acc) ==
    LET closed == IF cur = <<>> THEN acc ELSE Append(acc, cur)
    IN  IF s = <<>> THEN closed
        ELSE IF IsAsciiWhitespace(Head(s)) THEN SplitTokens(Tail(s), <<>>, closed)
        ELSE SplitTokens(Tail(s), Append(cur, Head(s)), acc)

split_ascii_whitespace(s) == SplitTokens(s, <<>>, <<>>)

\* tokens.join(" ")
RECURSIVE join(_)
join(tokens) ==
    IF tokens = <<>> THEN <<>>
    ELSE IF Len(tokens) = 1 THEN tokens[1]
    ELSE tokens[1] \o <<" ">> \o join(Tail(tokens))

Noop == ParsedCmd("Noop", "Noop", <<>>, 0)

ParseOk(cmd) == [ok |-> TRUE, cmd |-> cmd, err |-> "none", ctx |-> <<>>]

ParseErr(e, ctx) == [ok |-> FALSE, cmd |-> Noop, err |-> e, ctx |-> ctx]

\* the match of try_from, arm by arm; the location of a push or pop is
\* parsed before its segment is looked up
try_from(value) ==
    LET end == IF FindComment(value) = -1 THEN Len(value) ELSE FindComment(value)
        tokens == split_ascii_whitespace(Slice(value, 0, end))
        segments == IF tokens[1] = <<"p", "u", "s", "h">> THEN STR_PUSH_SEGMENT ELSE STR_POP_SEGMENT
    IN  CASE Len(tokens) = 0 -> ParseOk(Noop)
          [] Len(tokens) = 1 ->
                 IF tokens[1] \in DOMAIN STR_ARITHMETIC
                 THEN ParseOk(ParsedCmd("Arithmetic", STR_ARITHMETIC[tokens[1]], <<>>, 0))
                 ELSE ParseErr("UnknownCommandError", tokens[1])
          [] Len(tokens) = 2 /\ tokens[1] = <<"l", "a", "b", "e", "l">> ->
                 ParseOk(ParsedCmd("Flow", "Label", tokens[2], 0))
          [] Len(tokens) = 2 /\ tokens[1] = <<"i", "f", "-", "g", "o", "t", "o">> ->
                 ParseOk(ParsedCmd("Flow", "IfGoto", tokens[2], 0))
          [] Len(tokens) = 2 /\ tokens[1] = <<"g", "o", "t", "o">> ->
                 ParseOk(ParsedCmd("Flow", "Goto", tokens[2], 0))
          [] Len(tokens) = 3 /\ tokens[1] \in {<<"p", "u", "s", "h">>, <<"p", "o", "p">>} ->
                 IF parse_location(tokens[3]) = -1
                 THEN ParseErr("InvalidMemoryLocation", tokens[3])
                 ELSE IF tokens[2] \notin DOMAIN segments
                 THEN ParseErr("UnknownSegmentError", tokens[2])
                 ELSE ParseOk(ParsedCmd(IF tokens[1] = <<"p", "u", "s", "h">> THEN "Push" ELSE "Pop",
                                        segments[tokens[2]], <<>>,
                                        parse_location(tokens[3])))
          [] OTHER -> ParseErr("UnknownCommandError", join(tokens))

\* Parser::next on a stream holding one line: Some(Ok(Command)) or
\* Some(Err(err)); the command keeps the line as read
ParserNextItem(l) ==
    LET r == try_from(l)
    IN  IF r.ok THEN [ok |-> TRUE, cmd |-> Command(l, r.cmd), err |-> "none", ctx |-> <<>>]
        ELSE [ok |-> FALSE, cmd |-> Command(l, Noop), err |-> r.err, ctx |-> r.ctx]

----------------------------------------------------------------------------
(* Parser harness: one line of a .vm file is read and parsed.  The lines   *)
(* are the shapes of the grammar and malformed ones, with leading blanks,  *)
(* trailing blanks and trailing comments                                   *)

PushSegments == {"Argument", "Local", "Static", "This", "That", "Pointer", "Temp"}

\* one command of every shape of the grammar, as the code writer takes it
GrammarCommands ==
    {Command(<<>>, Noop), VmReturn, VmEq, VmGt, VmLt,
     VmArithmetic(<<"a", "d", "d">>, "Add"), VmArithmetic(<<"s", "u", "b">>, "Sub"),
     VmArithmetic(<<"n", "e", "g">>, "Neg"), VmArithmetic(<<"a", "n", "d">>, "And"),
     VmArithmetic(<<"o", "r">>, "Or"), VmArithmetic(<<"n", "o", "t">>, "Not"),
     VmLabel(<<"L">>), VmGoto(<<"L">>), VmIfGoto(<<"L">>),
     VmFunction(<<"F">>, 2), VmCall(<<"F">>, 2), VmPushConstant(5)}
    \cup {VmPush(seg, 3) : seg \in PushSegments}
    \cup {VmPop(seg, 3) : seg \in PushSegments}

MalformedBodies ==
    {<<"f", "o", "o">>, <<"l", "a", "b", "e", "l">>, <<"p", "u", "s", "h">>, <<"A", "d", "d">>, <<"a", "d", "d", " ", "1">>, <<"j", "u", "m", "p", " ", "L">>, <<"l", "a", "b", "e", "l", " ", "a", " ", "b">>,
     <<"p", "u", "s", "h", " ", "l", "o", "c", "a", "l">>, <<"p", "u", "s", "h", " ", "l", "o", "c", "a", "l", " ", "1", " ", "2">>, <<"l", "o", "a", "d", " ", "l", "o", "c", "a", "l", " ", "1">>,
     <<"p", "u", "s", "h", " ", "f", "o", "o", " ", "1">>, <<"p", "o", "p", " ", "f", "o", "o", " ", "1">>, <<"p", "o", "p", " ", "c", "o", "n", "s", "t", "a", "n", "t", " ", "1">>, <<"p", "u", "s", "h", " ", "L", "o", "c", "a", "l", " ", "1">>,
     <<"p", "u", "s", "h", " ", "l", "o", "c", "a", "l", " ", "x">>, <<"p", "o", "p", " ", "t", "e", "m", "p", " ", "1", "x">>, <<"p", "u", "s", "h", " ", "l", "o", "c", "a", "l", " ", "-", "1">>, <<"p", "u", "s", "h", " ", "l", "o", "c", "a", "l", " ", "6", "5", "5", "3", "6">>,
     <<"p", "u", "s", "h", " ", "l", "o", "c", "a", "l">>, <<"p", "u", "s", "h", " ", "f", "o", "o", " ", "x">>, <<"p", "o", "p", " ", "c", "o", "n", "s", "t", "a", "n", "t", " ", "x">>, <<"p", "u", "s", "h", " ", "l", "o", "c", "a", "l", " ", "1", ".", "5">>}

LineLeads == {<<>>, <<" ">>, <<"\t">>}

LineTails == {<<>>, <<" ">>, <<" ", "/", "/", " ", "c">>, <<"/", "/", "c">>}

VmLines ==
    {lead \o body \o tail :
        lead \in LineLeads, tail \in LineTails,
        body \in {cmd.original : cmd \in GrammarCommands} \cup MalformedBodies}

ParserNext ==
    /\ vm_parsed = <<>>
    /\ vm_parsed' = <<ParserNextItem(vm_line)>>
    /\ UNCHANGED <<vm_line, leases>>
    /\ UNCHANGED <<out_stream, label_manager, registers, namespace, vm_pc, entry,
                   calls, generated, asm>>
    /\ UNCHANGED <<asm_vars, sym_vars, tok_vars, op>>

ParseInit ==
    /\ vm_line \in VmLines
    /\ vm_parsed = <<>>
    /\ leases = <<>>
    /\ out_stream = <<>> /\ label_manager = <<>> /\ registers = <<>>
    /\ namespace = <<>> /\ vm_pc = "parser" /\ entry = 0 /\ calls = <<>>
    /\ generated = <<>> /\ asm = <<>>
    /\ AsmIdle /\ SymbolTableNew /\ TokIdle /\ op = NoOp

ParseSpec == ParseInit /\ [][ParserNext]_vars

----------------------------------------------------------------------------
(* RegMgr harness: a manager over a valid range is asked for registers,    *)
(* and the caller clones and drops the handles it holds, as the tests of   *)
(* reg_mgr.rs do.  leases holds the index of the register of each handle   *)

\* calls on the manager and its handles in one run
MaxRegOps == 5

\* RegMgr::new(start, end) with start <= end
RegRanges == {<<13, 15>>, <<5, 8>>, <<0, 0>>}

RegCalled(o, ok, reg) == [op |-> o, ok |-> ok, reg |-> reg]

RemoveAt(s, i) == SubSeq(s, 1, i - 1) \o SubSeq(s, i + 1, Len(s))

RegIdle ==
    /\ out_stream = <<>> /\ label_manager = <<>> /\ namespace = <<>>
    /\ entry = 0 /\ generated = <<>> /\ asm = <<>>
    /\ vm_line = <<>> /\ vm_parsed = <<>>
    /\ AsmIdle /\ SymbolTableNew /\ TokIdle /\ op = NoOp

RegUnchanged ==
    /\ UNCHANGED <<out_stream, label_manager, namespace, vm_pc, entry, generated, asm>>
    /\ UNCHANGED <<vm_line, vm_parsed>>
    /\ UNCHANGED <<asm_vars, sym_vars, tok_vars, op>>

\* let reg = reg_mgr.next(): Ok(reg) is kept, Err(NoFreeTmpSpace) is not
CallNext ==
    /\ Len(calls) < MaxRegOps
    /\ LET r == next(registers)
       IN  /\ registers' = r.registers
           /\ leases' = IF r.ok THEN Append(leases, r.reg) ELSE leases
           /\ calls' = Append(calls, RegCalled("next", r.ok, r.reg))
    /\ RegUnchanged

\* let copy = reg.clone()
CloneLease(h) ==
    /\ Len(calls) < MaxRegOps
    /\ registers' = clone(registers, leases[h])
    /\ leases' = Append(leases, leases[h])
    /\ calls' = Append(calls, RegCalled("clone", TRUE, leases[h]))
    /\ RegUnchanged

\* drop(reg)
DropLease(h) ==
    /\ Len(calls) < MaxRegOps
    /\ registers' = drop(registers, leases[h])
    /\ leases' = RemoveAt(leases, h)
    /\ calls' = Append(calls, RegCalled("drop", TRUE, leases[h]))
    /\ RegUnchanged

RegInit ==
    /\ vm_pc = "reg_mgr"
    /\ \E range \in RegRanges : registers = RegMgrNew(range[1], range[2])
    /\ leases = <<>>
    /\ calls = <<>>
    /\ RegIdle

RegNext ==
    \/ CallNext
    \/ \E h \in 1..Len(leases) : CloneLease(h)
    \/ \E h \in 1..Len(leases) : DropLease(h)

RegSpec == RegInit /\ [][RegNext]_vars

----------------------------------------------------------------------------
(* Vocabulary of the properties *)

\* the number written by a line of '0'/'1' characters, first character most
\* significant
RECURSIVE BitsValue(_)
BitsValue(bits) ==
    IF bits = <<>> THEN 0
    ELSE 2 * BitsValue(SubSeq(bits, 1, Len(bits) - 1))
         + (IF bits[Len(bits)] = "1" THEN 1 ELSE 0)

IsBinLine(l) == Len(l) = 16 /\ \A i \in 1..16 : l[i] \in {"0", "1"}

TokenOf(l) == tokenize(Trim(l))

IsInstrLine(l) == TokenOf(l).res = "Some" /\ TokenOf(l).tok.kind # "Label"

IsLabelLine(l) == TokenOf(l).res = "Some" /\ TokenOf(l).tok.kind = "Label"

\* the A- and C-instructions of a source, in source order
RECURSIVE SourceInstrs(_)
SourceInstrs(src) ==
    IF src = <<>> THEN <<>>
    ELSE (IF IsInstrLine(Head(src)) THEN <<TokenOf(Head(src)).tok>> ELSE <<>>)
         \o SourceInstrs(Tail(src))

\* the number of instructions before line i of the source
InstrsBefore(src, i) == Len(SourceInstrs(SubSeq(src, 1, i - 1)))

\* the names declared as labels anywhere in the source
DeclaredLabels(src) ==
    {TokenOf(src[i]).tok.name : i \in {j \in 1..Len(src) : IsLabelLine(src[j])}}

\* the names of @name instructions that are neither predefined nor declared
\* labels, each once, in order of first appearance
RECURSIVE FirstSightings(_, _, _)
FirstSightings(instrs, excluded, seen) ==
    IF instrs = <<>> THEN <<>>
    ELSE LET t == Head(instrs)
             fresh == t.kind = "Alias" /\ t.name \notin excluded /\ t.name \notin seen
         IN  (IF fresh THEN <<t.name>> ELSE <<>>)
             \o FirstSightings(Tail(instrs), excluded,
                               IF fresh THEN seen \cup {t.name} ELSE seen)

Variables(src) ==
    FirstSightings(SourceInstrs(src), DOMAIN PREDEF_ALIASES \cup DeclaredLabels(src), {})

IndexOf(seq, x) == CHOOSE i \in 1..Len(seq) : seq[i] = x

InSeq(seq, x) == \E i \in 1..Len(seq) : seq[i] = x

\* the destination mask of a set of registers: A = 100, D = 010, M = 001
DestMask(chars) ==
    (IF "A" \in chars THEN 4 ELSE 0) + (IF "D" \in chars THEN 2 ELSE 0)
    + (IF "M" \in chars THEN 1 ELSE 0)

Range(seq) == {seq[i] : i \in 1..Len(seq)}

Orderings(seq) ==
    {p \in [1..Len(seq) -> Range(seq)] : Range(p) = Range(seq)}

\* pass 1 has accepted the whole source
Accepted == pc \in {"convert_to_bin", "done"}

----------------------------------------------------------------------------
(* The Hack machine, executing the assembly text the code writer emitted:  *)
(* registers A and D, the RAM, and the address of the next instruction.    *)
(* Words are 16 bits; jumps test the ALU output as a two's complement      *)
(* number.                                                                 *)

Fuel == 160

Signed(v) == IF v >= 32768 THEN v - U16 ELSE v

Word(v) == v % U16

RECURSIVE BitAnd(_, _)
BitAnd(a, b) ==
    IF a = 0 \/ b = 0 THEN 0
    ELSE 2 * BitAnd(a \div 2, b \div 2) + (IF a % 2 = 1 /\ b % 2 = 1 THEN 1 ELSE 0)

\* the ALU output for a comp mnemonic, or -1 when the mnemonic has none
CompValue(comp, a, d, m) ==
    CASE comp = <<"0">> -> 0
      [] comp = <<"1">> -> 1
      [] comp = <<"-", "1">> -> 65535
      [] comp = <<"D">> -> d
      [] comp = <<"A">> -> a
      [] comp = <<"M">> -> m
      [] comp = <<"!", "D">> -> 65535 - d
      [] comp = <<"!", "A">> -> 65535 - a
      [] comp = <<"!", "M">> -> 65535 - m
      [] comp = <<"-", "D">> -> Word(0 - d)
      [] comp = <<"-", "A">> -> Word(0 - a)
      [] comp = <<"-", "M">> -> Word(0 - m)
      [] comp = <<"D", "+", "1">> -> Word(d + 1)
      [] comp = <<"A", "+", "1">> -> Word(a + 1)
      [] comp = <<"M", "+", "1">> -> Word(m + 1)
      [] comp = <<"D", "-", "1">> -> Word(d - 1)
      [] comp = <<"A", "-", "1">> -> Word(a - 1)
      [] comp = <<"M", "-", "1">> -> Word(m - 1)
      [] comp = <<"D", "+", "A">> -> Word(d + a)
      [] comp = <<"D", "+", "M">> -> Word(d + m)
      [] comp = <<"D", "-", "A">> -> Word(d - a)
      [] comp = <<"D", "-", "M">> -> Word(d - m)
      [] comp = <<"A", "-", "D">> -> Word(a - d)
      [] comp = <<"M", "-", "D">> -> Word(m - d)
      [] comp = <<"D", "&", "A">> -> BitAnd(d, a)
      [] comp = <<"D", "&", "M">> -> BitAnd(d, m)
      [] comp = <<"D", "|", "A">> -> BitOr(d, a)
      [] comp = <<"D", "|", "M">> -> BitOr(d, m)
      [] OTHER -> -1

JumpTaken(jump, out) ==
    CASE jump = None -> FALSE
      [] jump = Some(<<"J", "G", "T">>) -> Signed(out) > 0
      [] jump = Some(<<"J", "E", "Q">>) -> out = 0
      [] jump = Some(<<"J", "G", "E">>) -> Signed(out) >= 0
      [] jump = Some(<<"J", "L", "T">>) -> Signed(out) < 0
      [] jump = Some(<<"J", "N", "E">>) -> out # 0
      [] jump = Some(<<"J", "L", "E">>) -> Signed(out) <= 0
      [] jump = Some(<<"J", "M", "P">>) -> TRUE
      [] OTHER -> FALSE

ReadRam(ram, addr) == IF addr \in DOMAIN ram THEN ram[addr] ELSE 0

WriteRam(ram, addr, v) == (addr :> v) @@ ram

\* the instructions of a text, in order; no recursion over the lines
Instructions(lines) ==
    LET tokens == [i \in 1..Len(lines) |-> TokenOf(lines[i])]
        instrs == SelectSeq(tokens, LAMBDA t : t.res = "Some" /\ t.tok.kind # "Label")
    IN  [i \in 1..Len(instrs) |-> instrs[i].tok] \o <<>>

\* the ROM address of the first line that declares the label: the number of
\* instructions before it
LabelAddress(lines, n) ==
    LET declaring == {i \in 1..Len(lines) :
                         IsLabelLine(lines[i]) /\ TokenOf(lines[i]).tok.name = n}
        first == CHOOSE i \in declaring : \A j \in declaring : i <= j
    IN  Cardinality({j \in 1..(first - 1) : IsInstrLine(lines[j])})

\* the variables of a text: the names of @name instructions that are neither
\* predefined nor labels
VariableNames(lines) ==
    LET instrs == Instructions(lines)
    IN  {instrs[i].name : i \in {j \in 1..Len(instrs) : instrs[j].kind = "Alias"}}
            \ (DOMAIN PREDEF_ALIASES \cup DeclaredLabels(lines))

\* the address of a variable: 16 plus the number of variables that appear
\* before its first appearance
VariableAddress(lines, n) ==
    LET instrs == Instructions(lines)
        first(x) == CHOOSE i \in 1..Len(instrs) :
                        /\ instrs[i].kind = "Alias" /\ instrs[i].name = x
                        /\ \A j \in 1..(i - 1) :
                               ~(instrs[j].kind = "Alias" /\ instrs[j].name = x)
    IN  START_ALIAS_ADDRESS
            + Cardinality({x \in VariableNames(lines) : first(x) < first(n)})

\* the value the assembler gives to @n: predefined alias, else label, else
\* the variable allocated at its first appearance
SymbolValue(lines, n) ==
    IF n \in DOMAIN PREDEF_ALIASES THEN PREDEF_ALIASES[n]
    ELSE IF n \in DeclaredLabels(lines) THEN LabelAddress(lines, n)
    ELSE VariableAddress(lines, n)

\* the ROM: the instructions of the text with every symbol resolved
Load(lines) ==
    LET instrs == Instructions(lines)
    IN  [i \in 1..Len(instrs) |->
            IF instrs[i].kind = "Alias" THEN RawAddr(SymbolValue(lines, instrs[i].name))
            ELSE instrs[i]] \o <<>>

\* the assembler accepts the text: every line tokenizes and no label is
\* declared twice
Assembles(lines) ==
    /\ \A i \in 1..Len(lines) : TokenOf(lines[i]).res \in {"None", "Some"}
    /\ \A i, j \in 1..Len(lines) :
           (i # j /\ IsLabelLine(lines[i]) /\ IsLabelLine(lines[j]))
               => TokenOf(lines[i]).tok.name # TokenOf(lines[j]).tok.name

Machine(a, d, ram, at) ==
    [a |-> a, d |-> d, ram |-> ram, pc |-> at, jumped |-> FALSE, fault |-> FALSE]

\* one instruction
Step(rom, m) ==
    LET ins == rom[m.pc + 1]
    IN  IF ins.kind = "RawAddr"
        THEN [m EXCEPT !.a = ins.addr, !.pc = @ + 1, !.jumped = FALSE]
        ELSE LET out == CompValue(ins.comp, m.a, m.d, ReadRam(m.ram, m.a))
                 dest == Range(unwrap_or_empty(ins.dest))
                 taken == JumpTaken(ins.jump, out)
             IN  IF out = -1 \/ ~(dest \subseteq {"A", "D", "M"})
                 THEN [m EXCEPT !.fault = TRUE]
                 ELSE [a |-> IF "A" \in dest THEN out ELSE m.a,
                       d |-> IF "D" \in dest THEN out ELSE m.d,
                       ram |-> IF "M" \in dest THEN WriteRam(m.ram, m.a, out) ELSE m.ram,
                       pc |-> IF taken THEN m.a ELSE m.pc + 1,
                       jumped |-> taken,
                       fault |-> FALSE]

Halted(rom, m) == m.fault \/ m.pc \notin 0..(Len(rom) - 1)

\* runs up to and including the first jump that is taken
RECURSIVE RunToJump(_, _, _)
RunToJump(rom, m, fuel) ==
    IF fuel = 0 \/ Halted(rom, m) THEN m
    ELSE LET m1 == Step(rom, m)
         IN  IF m1.jumped THEN m1 ELSE RunToJump(rom, m1, fuel - 1)

\* runs until the next instruction is the one at address stop
RECURSIVE RunUntil(_, _, _, _)
RunUntil(rom, m, stop, fuel) ==
    IF fuel = 0 \/ m.pc = stop \/ Halted(rom, m) THEN m
    ELSE RunUntil(rom, Step(rom, m), stop, fuel - 1)

\* the calls on the writer that wrote a command, and the last of them
LastCall == calls[Len(calls)]

LastWrote(kind, o) ==
    /\ calls # <<>>
    /\ LastCall.op = "write"
    /\ LastCall.cmd.parsed.kind = kind
    /\ LastCall.cmd.parsed.op = o

IsComment(l) == Len(l) >= 2 /\ l[1] = "/" /\ l[2] = "/"

\* RAM with the stack pointer and the four segment pointers
Frame(sp, lcl, arg, this, that) ==
    (0 :> sp) @@ (1 :> lcl) @@ (2 :> arg) @@ (3 :> this) @@ (4 :> that)

----------------------------------------------------------------------------
(* Properties of the tokenizer and the encoder (TokSpec) *)

\* a well-formed C-instruction line: known mnemonics in every field
WellFormedC(t) ==
    /\ t.kind = "CInstruction"
    /\ t.comp \in DOMAIN COMP_INSTR
    /\ t.dest \in DestOpts
    /\ t.jump \in JumpOpts

\* the word 111 a c1..c6 d1..d3 j1..j3 of a well-formed C-instruction
HackWord(t) ==
    57344 + 64 * COMP_INSTR[t.comp] + 8 * DestMask(Range(unwrap_or_empty(t.dest)))
    + (IF t.jump = None THEN 0 ELSE JMP_INSTR[t.jump[1]])

LineDAplus1JLE == <<"D", "=", "A", "+", "1", ";", "J", "L", "E">>

\* C1: every C-instruction dest=comp;jump is encoded as the word
\* 111 a c1..c6 d1..d3 j1..j3 (comp in bits 12..6, dest in bits 5..3, jump in
\* bits 2..0); D=A+1;JLE is encoded as 1110110111010110; two instructions
\* that differ in comp, dest set or jump never get the same word.
C1_CInstructionWord ==
    (word # NoWord /\ WellFormedC(token.tok)) =>
        /\ word.val = HackWord(token.tok)
        /\ line = LineDAplus1JLE =>
               word.bin = <<"1", "1", "1", "0", "1", "1", "0", "1",
                            "1", "1", "0", "1", "0", "1", "1", "0">>
        /\ \A d \in DestOpts, c \in DOMAIN COMP_INSTR, j \in JumpOpts :
               (\/ c # token.tok.comp
                \/ Range(unwrap_or_empty(d)) # Range(unwrap_or_empty(token.tok.dest))
                \/ j # token.tok.jump)
               => CInstToU16(CInstruction(d, c, j)) # word.val

\* C8: get_dest_instr does not depend on the order of the characters: for
\* a non-empty string of distinct characters of {A, D, M}, every permutation
\* gets the same bits, the OR of A = 100, D = 010, M = 001.
C8_DestPermutationInvariant ==
    (token.res = "Some" /\ token.tok.kind = "CInstruction"
        /\ token.tok.dest # None /\ token.tok.dest[1] \in DestStrings) =>
        \A p \in Orderings(token.tok.dest[1]) :
            /\ get_dest_instr(p) = get_dest_instr(token.tok.dest[1])
            /\ get_dest_instr(p) = Some(DestMask(Range(token.tok.dest[1])))

\* a three-register destination written in an order that is neither the
\* table's nor the course book's has been tokenized and encoded
C8_Witness ==
    /\ token.res = "Some"
    /\ token.tok.dest = Some(<<"D", "A", "M">>)
    /\ token.tok.comp = <<"D", "+", "1">>
    /\ word # NoWord
    /\ get_dest_instr(<<"D", "A", "M">>) = Some(7)

\* C9: @N is tokenized as RawAddr only when N is an unsigned 15-bit integer
\* (0..32767), so the output line of an A-instruction starts with 0; a
\* literal above 32767 is not emitted as an instruction.
C9_RawAddrIs15Bit ==
    (token.res = "Some" /\ token.tok.kind = "RawAddr") =>
        /\ token.tok.addr \in 0..32767
        /\ word # NoWord => word.bin[1] = "0"

\* the line is a C-instruction line whose computation field is empty
MissingComp(l) ==
    LET t == Trim(strip_comments(l))
        eq == FindChar(t, "=")
        rest == IF eq = -1 THEN t ELSE SliceFrom(t, eq + 1)
        semi == FindChar(rest, ";")
    IN  /\ t # <<>>
        /\ t[1] \notin {"(", "@"}
        /\ (IF semi = -1 THEN rest ELSE Slice(rest, 0, semi)) = <<>>

\* C10: a C-instruction line whose computation field is missing (D=, ;JMP,
\* D=;JMP) is rejected with MissingCmpInstruction, and no CInstruction token
\* with an empty comp string is returned.
C10_MissingCompRejected ==
    token # OkNone =>
        /\ MissingComp(line) => token = Err("MissingCmpInstruction")
        /\ (token.res = "Some" /\ token.tok.kind = "CInstruction")
               => token.tok.comp # <<>>

\* only spaces, or spaces and then a // comment
BlankOrComment(tail) ==
    \E k \in 0..Len(tail) :
        /\ \A i \in 1..k : tail[i] = " "
        /\ \/ k = Len(tail)
           \/ (k + 2 <= Len(tail) /\ tail[k + 1] = "/" /\ tail[k + 2] = "/")

\* C11: for a line whose first non-space character is ( followed by a
\* non-empty valid symbol S: (S), optionally followed by whitespace or a //
\* comment, tokenizes to Label(S) with exactly the characters of S; (S)
\* followed by any other character yields UnexpectedCharacter; (S with no
\* closing ) yields UnclosedLabel.
C11_LabelLine ==
    token # OkNone =>
        \A lead \in LabelLeads, S \in LabelSymbols :
            /\ line = lead \o <<"(">> \o S => token = Err("UnclosedLabelError")
            /\ \A tail \in LabelTails :
                   line = lead \o <<"(">> \o S \o <<")">> \o tail =>
                       IF BlankOrComment(tail)
                       THEN token = OkSome(Label(S))
                       ELSE token = Err("UnexpectedCharacter")

\* a label with digits and punctuation, indented and followed by a comment
C11_Witness ==
    /\ line = <<" ", " ", "(", "a", ".", "$", ")", " ", " ", "/", "/", "c">>
    /\ token.res = "Some"
    /\ token.tok.kind = "Label"
    /\ token.tok.name = <<"a", ".", "$">>

----------------------------------------------------------------------------
(* Properties of the two-pass driver (Spec) *)

\* the value resolved for an instruction, given the final symbol table
ValueOf(t) ==
    CASE t.kind = "RawAddr" -> t.addr
      [] t.kind = "CInstruction" -> CInstToU16(t)
      [] t.kind = "Alias" ->
            IF t.name \in DOMAIN aliases THEN aliases[t.name]
            ELSE IF t.name \in DOMAIN labels THEN labels[t.name] ELSE -1

\* C2: for an accepted source the output has exactly one line per A- or
\* C-instruction of the source, in source order, each the 16-character
\* '0'/'1' string, most significant bit first, of the instruction's 16-bit
\* value; labels, blank lines and comments produce no line.
C2_OneBinaryLinePerInstruction ==
    Accepted =>
        LET instrs == SourceInstrs(source)
        IN  /\ Len(target) <= Len(instrs)
            /\ pc = "done" => Len(target) = Len(instrs)
            /\ \A k \in 1..Len(target) :
                   /\ IsBinLine(target[k])
                   /\ BitsValue(target[k]) = ValueOf(instrs[k])

\* a source with a comment, a label and two instructions has been assembled
C2_Witness ==
    /\ pc = "done"
    /\ source = << <<" ", "/", "/", "c">>, <<"(", "L", ")">>, <<"@", "5">> >>
    /\ target = << bin_string(5) >>
    /\ target[1][14] = "1" /\ target[1][16] = "1" /\ target[1][1] = "0"

\* C3: a label declaration (L) binds L to the number of A/C instructions
\* that precede it, and every @L, before or after the declaration, is
\* emitted as that ROM address and never consumes a variable address (L not
\* being a predefined symbol).
C3_LabelIsRomAddress ==
    pc = "done" =>
        \A i \in 1..Len(source) :
            (IsLabelLine(source[i])
                /\ TokenOf(source[i]).tok.name \notin DOMAIN PREDEF_ALIASES) =>
            LET L == TokenOf(source[i]).tok.name
                instrs == SourceInstrs(source)
            IN  /\ labels[L] = InstrsBefore(source, i)
                /\ L \notin DOMAIN aliases
                /\ \A k \in 1..Len(instrs) :
                       (instrs[k].kind = "Alias" /\ instrs[k].name = L)
                       => BitsValue(target[k]) = InstrsBefore(source, i)

\* a forward reference to a label declared after two instructions
C3_Witness ==
    /\ pc = "done"
    /\ source = << <<"@", "L">>, <<"D", "=", "A">>, <<"(", "L", ")">> >>
    /\ BitsValue(target[1]) = 2
    /\ next_mem_allocation = START_ALIAS_ADDRESS

\* C4: the i-th (from 0) distinct name of an @name instruction that is
\* neither predefined nor a declared label is emitted as 0x0010 + i, in order
\* of first appearance, and every later @name of that name as the same
\* address.
C4_VariablesFrom16 ==
    pc = "done" =>
        LET instrs == SourceInstrs(source)
            variables == Variables(source)
        IN  \A k \in 1..Len(instrs) :
                (instrs[k].kind = "Alias" /\ InSeq(variables, instrs[k].name))
                => BitsValue(target[k]) = 16 + (IndexOf(variables, instrs[k].name) - 1)

\* two variables, the first used again
C4_Witness ==
    /\ pc = "done"
    /\ source = << <<"@", "x">>, <<"@", "y">>, <<"@", "x">> >>
    /\ target = << bin_string(16), bin_string(17), bin_string(16) >>

\* C5: pass 2 resolves @n with the alias map first, the label map second,
\* and allocates only if n is in neither: a name that is a predefined alias
\* and a declared label is emitted as the alias address, a name that is only
\* a label as its ROM address, and add_alias is called only for names absent
\* from both maps.
C5_AliasBeforeLabel ==
    pc = "done" =>
        LET instrs == SourceInstrs(source)
            declared == DeclaredLabels(source)
        IN  /\ \A k \in 1..Len(instrs) :
                   instrs[k].kind = "Alias" =>
                       /\ instrs[k].name \in DOMAIN PREDEF_ALIASES
                              => BitsValue(target[k]) = PREDEF_ALIASES[instrs[k].name]
                       /\ (instrs[k].name \notin DOMAIN PREDEF_ALIASES
                              /\ instrs[k].name \in declared)
                              => BitsValue(target[k]) = labels[instrs[k].name]
            /\ DOMAIN aliases \ DOMAIN PREDEF_ALIASES = Range(Variables(source))
            /\ next_mem_allocation = START_ALIAS_ADDRESS + Len(Variables(source))

\* SCREEN is declared as a label at ROM address 1 and then referenced
C5_Witness ==
    /\ pc = "done"
    /\ source = << <<"D", "=", "A">>, <<"(", "S", "C", "R", "E", "E", "N", ")">>,
                   <<"@", "S", "C", "R", "E", "E", "N">> >>
    /\ labels[<<"S", "C", "R", "E", "E", "N">>] = 1
    /\ BitsValue(target[2]) = SCREEN_MEM

\* line j of the source declares a label that an earlier line declares
Redeclares(src, j) ==
    /\ j \in 1..Len(src)
    /\ IsLabelLine(src[j])
    /\ \E i \in 1..(j - 1) :
           IsLabelLine(src[i]) /\ TokenOf(src[i]).tok.name = TokenOf(src[j]).tok.name

FirstDeclaration(src, L) ==
    CHOOSE i \in 1..Len(src) :
        /\ IsLabelLine(src[i]) /\ TokenOf(src[i]).tok.name = L
        /\ \A h \in 1..(i - 1) : ~(IsLabelLine(src[h]) /\ TokenOf(src[h]).tok.name = L)

\* C6: declaring the same label twice is rejected: pass 1 never gets past a
\* second (L), it fails there with the symbol-table AlreadySet error, and the
\* failed add_label leaves L bound to its first line number.
C6_RedeclaredLabelRejected ==
    /\ \A j \in 1..src_pos : ~Redeclares(source, j)
    /\ Accepted => \A j \in 1..Len(source) : ~Redeclares(source, j)
    /\ (pc = "error" /\ Redeclares(source, src_pos + 1)) =>
           LET L == TokenOf(source[src_pos + 1]).tok.name
           IN  /\ error = SymbolTableError
               /\ labels[L] = InstrsBefore(source, FirstDeclaration(source, L))

\* (L), one instruction, (L) again: the second declaration has failed
C6_Witness ==
    /\ pc = "error"
    /\ source = << <<"(", "L", ")">>, <<"D", "=", "A">>, <<"(", "L", ")">> >>
    /\ src_pos = 2
    /\ error = SymbolTableError
    /\ labels[<<"L">>] = 0

----------------------------------------------------------------------------
(* Properties of the symbol table (SymSpec) *)

\* C7: the label map and the alias map are independent namespaces:
\* add_label(X, n) succeeds even when X is an alias and leaves get_addr
\* unchanged for every name; add_alias(X) succeeds even when X is a label and
\* leaves get_line_no unchanged.
C7_SeparateNamespaces ==
    [][ /\ op'.kind = "add_label" =>
               /\ op'.ok <=> op'.name \notin DOMAIN labels
               /\ \A X \in SymNames : get_addr(aliases', X) = get_addr(aliases, X)
        /\ op'.kind = "add_alias" =>
               /\ op'.ok <=> op'.name \notin DOMAIN aliases
               /\ \A X \in SymNames : get_line_no(labels', X) = get_line_no(labels, X)
      ]_vars

\* a predefined alias has been declared as a label, and a name that is a
\* label has just been allocated as an alias
C7_Witness ==
    /\ <<"S", "C", "R", "E", "E", "N">> \in DOMAIN labels
    /\ op.kind = "add_alias"
    /\ op.ok
    /\ op.name \in DOMAIN labels
    /\ get_addr(aliases, op.name) = Some(op.val)

----------------------------------------------------------------------------
(* Properties of the VM translator *)

IsPrefix(p, s) == Len(p) <= Len(s) /\ SubSeq(s, 1, Len(p)) = p

\* the lines of a text that are not comments
Code(lines) == SelectSeq(lines, LAMBDA l : ~IsComment(l))

Bootstrap == <<<<"@", "2", "5", "6">>, <<"D", "=", "A">>, <<"@", "S", "P">>, <<"M", "=", "D">>>>

\* C12: for any .vm program, the output of the VM translator
\* (create_code_writer followed by translate) begins with the bootstrap
\* @256, D=A, @SP, M=D followed by the lowering of call Sys.init 0, emitted
\* before the code of any input file.
C12_BootstrapFirst ==
    vm_pc = "done" =>
        IsPrefix(Bootstrap \o call(<<"S", "y", "s", ".", "i", "n", "i", "t">>, 0, LabelManagerNew(<<"a", "s", "m">>)).asm,
                 Code(out_stream))


\* machine states the lowerings are run from: stack pointer, LCL, ARG, THIS
\* and THAT of a caller, and a value left in A and D by earlier code
TestFrames ==
    {Frame(256, 300, 310, 3000, 4000), Frame(261, 261, 256, 0, 65535),
     Frame(100, 11, 22, 33, 44)}

Garbage == {0, 12345}

\* the name a label line declares
Declared(l) == TokenOf(l).tok.name

\* C13: executing the lowering of `call F k` from stack pointer S pushes the
\* ROM address of the return label, then the old LCL, ARG, THIS and THAT
\* (RAM[S..S+4]), sets ARG = S - k and LCL = SP = S + 5 and jumps to F; the
\* definition of the return label is the line right after the jump, so the
\* pushed address is the one of the instruction that follows the lowering.
\* The Label Manager has a scope to name the return label in (a writer
\* without one is the matter of C20).
C13_CallSequence ==
    (LastWrote("Flow", "Call") /\ label_manager # <<>>) =>
        LET k == LastCall.cmd.parsed.n
            F == LastCall.cmd.parsed.name
            rom == Load(asm)
            last == Len(asm)
        IN  /\ Assembles(asm)
            /\ IsLabelLine(asm[last])
            /\ asm[last - 1] = <<"0", ";", "J", "M", "P">>
            /\ asm[last - 2] = <<"@">> \o F
            /\ asm[1] = <<"@">> \o Declared(asm[last])
            /\ LabelAddress(asm, Declared(asm[last])) = Len(rom)
            /\ \A fr \in TestFrames, g \in Garbage :
                   LET S == fr[0]
                       m == RunToJump(rom, Machine(g, g, fr, 0), Fuel)
                   IN  /\ m.jumped /\ ~m.fault
                       /\ m.pc = SymbolValue(asm, F)
                       /\ ReadRam(m.ram, S) = Len(rom)
                       /\ \A i \in 1..4 : ReadRam(m.ram, S + i) = fr[i]
                       /\ m.ram[2] = Word(S - k)
                       /\ m.ram[1] = S + 5
                       /\ m.ram[0] = S + 5
                       /\ m.ram[3] = fr[3] /\ m.ram[4] = fr[4]

\* a second call, with 255 arguments, has been lowered and run to its jump
C13_Witness ==
    /\ LastWrote("Flow", "Call")
    /\ label_manager # <<>>
    /\ Len(calls) = 2
    /\ LastCall.cmd.parsed.n = 255
    /\ \E i \in 1..Len(asm) : asm[i] = <<"@", "2", "6", "0">>
    /\ \A fr \in TestFrames :
           LET m == RunToJump(Load(asm), Machine(0, 0, fr, 0), Fuel)
           IN  m.jumped /\ m.ram[2] = Word(fr[0] - 255)


\* the RAM of a callee about to return: its frame starts at fp, it was
\* called with nargs arguments, the call saved ret and the caller's LCL, ARG,
\* THIS, THAT below fp, and the return value rv is on top of the stack
CalleeRam(fp, nargs, ret, rv) ==
    Frame(fp + 2, fp, fp - 5 - nargs, 5000, 6000)
        @@ ((fp - 5) :> ret) @@ ((fp - 4) :> 301) @@ ((fp - 3) :> 302)
        @@ ((fp - 2) :> 303) @@ ((fp - 1) :> 304) @@ (fp :> 9) @@ ((fp + 1) :> rv)

CalleeArgs == {0, 1, 2}

ReturnAddresses == {7, 1234}

\* C14: executing the lowering of `return` keeps the frame pointer and the
\* saved return address *(LCL - 5) in two scratch registers, stores the
\* return value into *ARG, sets SP = ARG + 1, restores THAT, THIS, ARG, LCL
\* from *(frame - 1) .. *(frame - 4) and jumps to the saved return address,
\* also when the callee has no arguments and the return value overwrites the
\* slot of the return address.
C14_ReturnSequence ==
    LastWrote("Flow", "Return") =>
        /\ Assembles(asm)
        /\ \A nargs \in CalleeArgs, ret \in ReturnAddresses, g \in Garbage :
               LET fp == 305
                   arg == fp - 5 - nargs
                   m == RunToJump(Load(asm), Machine(g, g, CalleeRam(fp, nargs, ret, 777), 0), Fuel)
               IN  /\ m.jumped /\ ~m.fault
                   /\ m.pc = ret
                   /\ m.ram[arg] = 777
                   /\ m.ram[0] = arg + 1
                   /\ m.ram[4] = 304 /\ m.ram[3] = 303 /\ m.ram[2] = 302 /\ m.ram[1] = 301
                   /\ \E r1, r2 \in 13..15 :
                          r1 # r2 /\ ReadRam(m.ram, r1) = fp /\ ReadRam(m.ram, r2) = ret

\* a return of a callee without arguments has been run: the return value
\* lies where the return address was, and the jump went to that address
C14_Witness ==
    /\ LastWrote("Flow", "Return")
    /\ LET m == RunToJump(Load(asm), Machine(0, 0, CalleeRam(305, 0, 1234, 777), 0), Fuel)
       IN  m.jumped /\ m.pc = 1234 /\ m.ram[300] = 777 /\ m.ram[0] = 301


\* the lines of the last n commands written, from the comment of the first
TextOfLast(n) ==
    LET comments == {i \in 1..Len(out_stream) : IsComment(out_stream[i])}
        first == CHOOSE i \in comments :
                     Cardinality({j \in comments : j >= i}) = n
    IN  SubSeq(out_stream, first, Len(out_stream))

\* the last three calls wrote `call F k`, `function F 0` and `return`
WroteRoundTrip ==
    /\ Len(calls) >= 3
    /\ \A i \in 0..2 : calls[Len(calls) - i].op = "write"
    /\ LET c == calls[Len(calls) - 2].cmd.parsed
           f == calls[Len(calls) - 1].cmd.parsed
           r == calls[Len(calls)].cmd.parsed
       IN  /\ c.kind = "Flow" /\ c.op = "Call"
           /\ f.kind = "Marker" /\ f.op = "Function" /\ f.name = c.name /\ f.n = 0
           /\ r.kind = "Flow" /\ r.op = "Return"

\* C15: executing the lowering of `call F k` immediately followed by
\* `function F 0` and `return` resumes at the return label of the call with
\* LCL, ARG, THIS and THAT as before the call and SP = S - k + 1, where S is
\* the stack pointer before the call.  The Label Manager has a scope to name
\* the return label in (a writer without one is the matter of C20).
C15_CallReturnRoundTrip ==
    (WroteRoundTrip /\ label_manager # <<>>) =>
        LET text == TextOfLast(3)
            rom == Load(text)
            k == calls[Len(calls) - 2].cmd.parsed.n
            ret_label == generated[Len(generated)]
        IN  /\ Assembles(text)
            /\ \A fr \in TestFrames, g \in Garbage :
                   LET called == RunToJump(rom, Machine(g, g, fr, 0), Fuel)
                       m == RunToJump(rom, called, Fuel)
                   IN  /\ called.jumped /\ m.jumped /\ ~m.fault
                       /\ m.pc = LabelAddress(text, ret_label)
                       /\ \A i \in 1..4 : m.ram[i] = fr[i]
                       /\ m.ram[0] = Word(fr[0] - k + 1)

\* a round trip with two arguments has been run from stack pointer 256
C15_Witness ==
    /\ WroteRoundTrip
    /\ label_manager # <<>>
    /\ calls[Len(calls) - 2].cmd.parsed.n = 2
    /\ LET rom == Load(TextOfLast(3))
           m == RunToJump(rom, RunToJump(rom, Machine(0, 0, Frame(256, 300, 310, 3000, 4000), 0), Fuel), Fuel)
       IN  m.jumped /\ m.ram[0] = 255 /\ m.ram[2] = 310


\* operands of the comparisons, as signed 16-bit values
CmpValues == {0, 1, -1, 5, 32767, -32768}

\* x op y for the comparison commands
Compares(o, x, y) ==
    CASE o = "Eq" -> x = y
      [] o = "Gt" -> x > y
      [] o = "Lt" -> x < y

\* C16: executing the lowering of eq, gt or lt with x second from the top
\* and y on top of the stack replaces both by -1 when x = y, x > y or x < y
\* as signed 16-bit numbers, and by 0 otherwise, with SP one less than
\* before; the first comparison of a writer with prefix ASM uses ASM.1 for
\* the true branch and ASM.2 for the end.
C16_ComparisonResult ==
    (/\ calls # <<>>
     /\ LastCall.op = "write"
     /\ LastCall.cmd.parsed.kind = "Arithmetic"
     /\ LastCall.cmd.parsed.op \in {"Eq", "Gt", "Lt"}
     /\ label_manager # <<>>) =>
        LET rom == Load(asm)
            S == 258
        IN  /\ Assembles(asm)
            /\ Len(calls) = 1 =>
                   /\ generated = <<<<"A", "S", "M", ".", "1">>, <<"A", "S", "M", ".", "2">>>>
                   /\ \E i \in 1..(Len(asm) - 2) :
                          /\ asm[i] = <<"(", "A", "S", "M", ".", "1", ")">>
                          /\ asm[i + 1] = <<"D", "=", "-", "1">>
                          /\ asm[i + 2] = <<"(", "A", "S", "M", ".", "2", ")">>
            /\ \A x, y \in CmpValues, g \in Garbage :
                   LET ram == Frame(S, 300, 310, 3000, 4000)
                                  @@ ((S - 2) :> Word(x)) @@ ((S - 1) :> Word(y))
                       m == RunUntil(rom, Machine(g, g, ram, 0), Len(rom), Fuel)
                   IN  /\ m.pc = Len(rom) /\ ~m.fault
                       /\ m.ram[0] = S - 1
                       /\ m.ram[S - 2] = IF Compares(LastCall.cmd.parsed.op, x, y) THEN 65535 ELSE 0


\* C17: `push constant N` is accepted for every signed 16-bit N, its
\* lowering is text the assembler accepts, and executing it writes N (as a
\* 16-bit word) to RAM[SP] and leaves SP one higher; for N = 5 the lowering
\* is @5, D=A, @SP, A=M, M=D, @SP, M=M+1.
C17_PushConstant ==
    LastWrote("PushConstant", "Constant") =>
        LET N == LastCall.cmd.parsed.n
            rom == Load(asm)
        IN  /\ parse_location(to_string(N)) # -1
            /\ Assembles(asm)
            /\ N = 5 => asm = <<<<"@", "5">>, <<"D", "=", "A">>, <<"@", "S", "P">>, <<"A", "=", "M">>, <<"M", "=", "D">>, <<"@", "S", "P">>, <<"M", "=", "M", "+", "1">>>>
            /\ \A fr \in TestFrames, g \in Garbage :
                   LET m == RunUntil(rom, Machine(g, g, fr, 0), Len(rom), Fuel)
                   IN  /\ m.pc = Len(rom) /\ ~m.fault
                       /\ ReadRam(m.ram, fr[0]) = Word(N)
                       /\ m.ram[0] = fr[0] + 1


\* the name of label lbl in the label scope the writer is in
Scoped(lbl) == create(label_manager[Len(label_manager)], lbl)

\* C18: `label L` emits the definition (prefix.L) and `goto L` and
\* `if-goto L` reference @prefix.L, where prefix is the label scope of the
\* enclosing function, so that the label L of one function is not the
\* label L of another.
C18_LabelsInFunctionScope ==
    (calls # <<>> /\ LastCall.op = "write" /\ label_manager # <<>>) =>
        LET c == LastCall.cmd.parsed
        IN  /\ (c.kind = "Marker" /\ c.op = "Label") =>
                   asm = <<<<"(">> \o Scoped(c.name) \o <<")">>>>
            /\ (c.kind = "Flow" /\ c.op = "Goto") =>
                   asm = <<<<"@">> \o Scoped(c.name), <<"0", ";", "J", "M", "P">>>>
            /\ (c.kind = "Flow" /\ c.op = "IfGoto") =>
                   /\ \E i \in 1..Len(asm) : asm[i] = <<"@">> \o Scoped(c.name)
                   /\ \A i \in 1..Len(asm) : asm[i] # <<"@">> \o c.name


\* every `return` written so far is preceded by a `function` of the same
\* file
ReturnsFollowFunctions ==
    \A j \in 1..Len(calls) :
        (calls[j].op = "write" /\ calls[j].cmd.parsed.op = "Return") =>
            \E i \in 1..(j - 1) :
                /\ calls[i].op = "write" /\ calls[i].cmd.parsed.op = "Function"
                /\ \A h \in i..j : calls[h].op # "set_namespace"

\* C19: the labels the Label Manager returned during a translation job
\* (comparison labels and return labels of calls) are pairwise different.
C19_GeneratedLabelsUnique ==
    ReturnsFollowFunctions =>
        \A i, j \in 1..Len(generated) : i # j => generated[i] # generated[j]

\* C20: in a program whose returns each follow a function of the same file,
\* the generator stack has depth >= 2 whenever a return is lowered, so after
\* any command the stack is not empty and its first generator is still the
\* one of the file.
C20_ReturnKeepsFileGenerator ==
    ReturnsFollowFunctions =>
        /\ label_manager # <<>>
        /\ get_prefix(label_manager[1]) = namespace


\* RAM with the stack pointer at sp, the value top on top of the stack and
\* the eight temp cells RAM[5..12] holding 105..112
TempRam(sp, top) ==
    Frame(sp, 300, 310, 3000, 4000) @@ [a \in 5..12 |-> 100 + a] @@ ((sp - 1) :> top)

LastIsMem ==
    /\ calls # <<>>
    /\ LastCall.op = "write"
    /\ LastCall.cmd.parsed.kind \in {"Push", "Pop"}
    /\ LastCall.cmd.parsed.op \in {"Temp", "Pointer"}

\* what the memory writer returns for the last command (the namespace and
\* the free registers are as they were when it was lowered)
LastMemResult ==
    IF LastCall.cmd.parsed.kind = "Push"
    THEN push_to_stack(namespace, LastCall.cmd.parsed.op, LastCall.cmd.parsed.n)
    ELSE pop_stack_to(registers, namespace, LastCall.cmd.parsed.op, LastCall.cmd.parsed.n)

\* the cell a temp or pointer index stands for
CellOf(segment, i) == IF segment = "Temp" THEN TMP_BASE_ADDR + i ELSE 3 + i

\* C21: push/pop temp i read and write RAM[5 + i] for i in 0..7, push/pop
\* pointer 0 and 1 read and write THIS and THAT; temp i >= 8 and pointer
\* i >= 2 fail with the out-of-bounds error of the operation and give no
\* assembly lines.
C21_TempAndPointer ==
    LastIsMem =>
        LET c == LastCall.cmd.parsed
            inside == IF c.op = "Temp" THEN c.n <= 7 ELSE c.n <= 1
            S == 260
            cell == CellOf(c.op, c.n)
            m == RunUntil(Load(asm), Machine(12345, 54321, TempRam(S, 777), 0),
                          Len(Load(asm)), Fuel)
        IN  IF inside
            THEN /\ LastMemResult.ok /\ asm = LastMemResult.asm /\ asm # <<>>
                 /\ Assembles(asm)
                 /\ ~m.fault /\ m.pc = Len(Load(asm))
                 /\ IF c.kind = "Push"
                    THEN /\ m.ram[S] = TempRam(S, 777)[cell]
                         /\ m.ram[0] = S + 1
                         /\ \A a \in 1..12 : m.ram[a] = TempRam(S, 777)[a]
                    ELSE /\ m.ram[cell] = 777
                         /\ m.ram[0] = S - 1
                         /\ \A a \in (1..12) \ {cell} : m.ram[a] = TempRam(S, 777)[a]
            ELSE /\ ~LastMemResult.ok
                 /\ LastMemResult.err = (IF c.kind = "Push" THEN "OutOfBoundsPushError"
                                         ELSE "OutOfBoundsPopError")
                 /\ asm = <<>>
                 /\ out_stream[Len(out_stream)] = <<"/", "/">> \o LastCall.cmd.original

\* pop temp 7 has been lowered and run, after a pop temp 8 that failed
C21_Witness ==
    /\ Len(calls) = 2
    /\ calls[1].cmd = VmPop("Temp", 8)
    /\ calls[2].cmd = VmPop("Temp", 7)
    /\ asm # <<>>
    /\ RunUntil(Load(asm), Machine(0, 0, TempRam(260, 777), 0), Len(Load(asm)), Fuel).ram[12] = 777

----------------------------------------------------------------------------
(* Properties of the VM parser *)

\* the line is a command of the grammar between a lead and a tail
IsLineOf(cmd) ==
    \E lead \in LineLeads, tail \in LineTails : vm_line = lead \o cmd.original \o tail

\* C22: every line shape of the grammar table is parsed to the command the
\* table lists for it: a blank or comment-only line to Noop, return to
\* Flow(Return), the nine mnemonics to Arithmetic, label to Marker(Label),
\* goto and if-goto to Flow(Goto), function to Marker(Function), call to
\* Flow(Call), push constant N to PushConstant(N), push/pop SEG N to
\* Push/Pop(seg, N)
C22_GrammarTable ==
    vm_parsed # <<>> =>
        \A cmd \in GrammarCommands :
            IsLineOf(cmd) => vm_parsed[1].ok /\ vm_parsed[1].cmd.parsed = cmd.parsed

\* the tokens of the line read: what precedes "//", split on whitespace
LineTokens == split_ascii_whitespace(strip_comments(vm_line))

KnownMnemonics ==
    {<<"a", "d", "d">>, <<"s", "u", "b">>, <<"n", "e", "g">>, <<"e", "q">>, <<"g", "t">>, <<"l", "t">>, <<"a", "n", "d">>, <<"o", "r">>, <<"n", "o", "t">>, <<"r", "e", "t", "u", "r", "n">>}

\* the segment names valid for an operation
SegmentsOf(operation) ==
    {SegmentName(seg) : seg \in PushSegments}
    \cup (IF operation = <<"p", "u", "s", "h">> THEN {<<"c", "o", "n", "s", "t", "a", "n", "t">>} ELSE {})

IsInteger(s) ==
    LET digits == IF s # <<>> /\ Head(s) \in {"+", "-"} THEN Tail(s) ELSE s
    IN  digits # <<>> /\ \A i \in 1..Len(digits) : digits[i] \in Digits

IsPushPop(tokens) == Len(tokens) = 3 /\ tokens[1] \in {<<"p", "u", "s", "h">>, <<"p", "o", "p">>}

\* a line of one of the shapes of the grammar table
WellFormed(tokens) ==
    \/ Len(tokens) = 0
    \/ Len(tokens) = 1 /\ tokens[1] \in KnownMnemonics
    \/ Len(tokens) = 2 /\ tokens[1] \in {<<"l", "a", "b", "e", "l">>, <<"g", "o", "t", "o">>, <<"i", "f", "-", "g", "o", "t", "o">>}
    \/ Len(tokens) = 3 /\ tokens[1] \in {<<"f", "u", "n", "c", "t", "i", "o", "n">>, <<"c", "a", "l", "l">>} /\ IsInteger(tokens[3])
    \/ IsPushPop(tokens) /\ tokens[2] \in SegmentsOf(tokens[1]) /\ IsInteger(tokens[3])

Raised(e, ctx) ==
    /\ ~vm_parsed[1].ok
    /\ vm_parsed[1].err = e
    /\ vm_parsed[1].ctx = ctx

\* C23 as stated: a malformed line yields an error and no command; an
\* unknown single token yields UnknownCommand carrying the token, push/pop
\* with a segment not valid for the operation yields UnknownSegment carrying
\* the segment name, push/pop with a non-integer index yields
\* InvalidMemoryLocation
C23_Original ==
    vm_parsed # <<>> =>
        LET tokens == LineTokens
        IN  /\ ~WellFormed(tokens) => ~vm_parsed[1].ok
            /\ Len(tokens) = 1 /\ tokens[1] \notin KnownMnemonics
                   => Raised("UnknownCommandError", tokens[1])
            /\ IsPushPop(tokens) /\ tokens[2] \notin SegmentsOf(tokens[1])
                   => Raised("UnknownSegmentError", tokens[2])
            /\ IsPushPop(tokens) /\ ~IsInteger(tokens[3])
                   => Raised("InvalidMemoryLocation", tokens[3])

\* C23: a malformed line yields an error and no command; an unknown single
\* token yields UnknownCommand carrying the token; push/pop with a
\* non-integer index yields InvalidMemoryLocation whatever the segment;
\* push/pop with an integer index the parser accepts and a segment not valid
\* for the operation yields UnknownSegment carrying the segment name
C23_ErrorsAsValues ==
    vm_parsed # <<>> =>
        LET tokens == LineTokens
        IN  /\ ~WellFormed(tokens) => ~vm_parsed[1].ok
            /\ Len(tokens) = 1 /\ tokens[1] \notin KnownMnemonics
                   => Raised("UnknownCommandError", tokens[1])
            /\ IsPushPop(tokens) /\ tokens[2] \notin SegmentsOf(tokens[1])
                   /\ ParseU16(tokens[3]) # -1
                   => Raised("UnknownSegmentError", tokens[2])
            /\ IsPushPop(tokens) /\ ~IsInteger(tokens[3])
                   => Raised("InvalidMemoryLocation", tokens[3])

\* `pop constant 1` has been read: UnknownSegment carrying "constant"
C23_Witness ==
    /\ vm_parsed # <<>>
    /\ LineTokens = <<<<"p", "o", "p">>, <<"c", "o", "n", "s", "t", "a", "n", "t">>, <<"1">>>>
    /\ Raised("UnknownSegmentError", <<"c", "o", "n", "s", "t", "a", "n", "t">>)

----------------------------------------------------------------------------
(* Properties of the register manager *)

\* the registers for which a lease or a clone of a lease is outstanding
Leased == {leases[h] : h \in 1..Len(leases)}

NextCalled == calls' # calls /\ calls'[Len(calls')].op = "next"

\* C24: a call of next() returns the lowest-indexed register with no lease
\* or clone outstanding, which is never a register currently leased, and
\* fails with NoFreeTmpSpace exactly when every register of the range has
\* an outstanding lease
C24_NextLowestFree ==
    [][NextCalled =>
          LET r == calls'[Len(calls')]
              free == (1..Len(registers)) \ Leased
          IN  /\ r.ok <=> free # {}
              /\ r.ok => /\ r.reg \in free
                         /\ \A i \in free : r.reg <= i
                         /\ leases' = Append(leases, r.reg)
              /\ ~r.ok => leases' = leases /\ registers' = registers]_vars

\* next() has returned the first register again after its lease was
\* dropped, while the second register is held by a lease and its clone
C24_Witness ==
    /\ vm_pc = "reg_mgr"
    /\ Len(leases) = 3
    /\ leases = <<2, 2, 1>>
    /\ calls[Len(calls)] = RegCalled("next", TRUE, 1)


----------------------------------------------------------------------------
(* Properties of the scratch-register leases of the code writer *)

\* the registers of a manager that are leased
LeasedIn(regs) == {i \in 1..Len(regs) : regs[i].strong_count > 1}

WriteCalled == calls' # calls /\ calls'[Len(calls')].op = "write"

\* C25: when write(cmd) returns, with success or with an error, no lease is
\* outstanding, so every register is free when the next command starts; no
\* lowering fails with NoFreeTmpSpace; return holds exactly three leases at
\* once, a pop one and any other command none
C25_LeasesReleased ==
    [][WriteCalled =>
          LET cmd == calls'[Len(calls')].cmd
              r == write(Writer, cmd)
          IN  /\ LeasedIn(registers) = {}
              /\ LeasedIn(registers') = {}
              /\ r.err # "NoFreeTmpSpace"
              /\ cmd = VmReturn => Cardinality(LeasedIn(r.peak)) = 3
              /\ cmd # VmReturn =>
                     Cardinality(LeasedIn(r.peak)) =
                         IF cmd.parsed.kind = "Pop" THEN 1 ELSE 0]_vars

\* return has been lowered after a pop that failed out of bounds, and
\* R13..R15 are free again
C25_Witness ==
    /\ Len(calls) = 2
    /\ calls[1].cmd = VmPop("Temp", 8)
    /\ calls[2].cmd = VmReturn
    /\ out_stream[2] = <<"/", "/", "r", "e", "t", "u", "r", "n">>
    /\ Len(out_stream) > 2
    /\ Len(registers) = 3
    /\ LeasedIn(registers) = {}

----------------------------------------------------------------------------
(* Properties of the emitted assembly against the assembler's tables *)

\* the line is a C-instruction whose three fields are all in the tables
Encodable(l) ==
    LET t == TokenOf(l).tok
    IN  /\ get_comp_instr(t.comp) # None
        /\ t.dest # None => get_dest_instr(t.dest[1]) # None
        /\ t.jump # None => get_jmp_instr(t.jump[1]) # None

IsCInstructionLine(l) == TokenOf(l).res = "Some" /\ TokenOf(l).tok.kind = "CInstruction"

\* C26: every C-instruction of a lowering has a comp mnemonic of the comp
\* table, a dest over A, D, M and a jump of the jump table, so none is
\* encoded with the zero default of an unknown mnemonic
C26_EmittedEncodable ==
    \A i \in 1..Len(asm) : IsCInstructionLine(asm[i]) => Encodable(asm[i])

----------------------------------------------------------------------------
(* Properties of the static aliases against the generated labels *)

\* the label names the output defines, from its (NAME) lines
DefinedLabels ==
    {TokenOf(out_stream[i]).tok.name : i \in {j \in 1..Len(out_stream) : IsLabelLine(out_stream[j])}}

\* the aliases written for the push static and pop static commands so far
StaticAliases ==
    {static_alias(namespace, calls[i].cmd.parsed.n) :
        i \in {j \in 1..Len(calls) :
                  /\ calls[j].op = "write"
                  /\ calls[j].cmd.parsed.kind \in {"Push", "Pop"}
                  /\ calls[j].cmd.parsed.op = "Static"}}

\* C27: no alias written for a static variable of a file is the name of a
\* label the code writer defines for that file, so no @FILE.i of a static
\* is resolved to the ROM address of a label
C27_StaticsAreNotLabels == StaticAliases \cap DefinedLabels = {}

----------------------------------------------------------------------------
(* Totality of the tokenizer (TokSpec) *)

\* C28: for every input line tokenize returns Ok(None), Ok(Some(token)) or
\* Err(TokenError); it never panics
C28_TokenizeTotal ==
    /\ tokenize(line).res \in {"None", "Some", "Err"}
    /\ token.res \in {"None", "Some", "Err"}

----------------------------------------------------------------------------
(* Errors of the two-pass driver and its output (Spec) *)

Pass1Errors == {"TokenError", "SymbolTableError", "NonCompilableToken"}

\* C29: when parse has failed with a tokenizer error, a symbol-table error
\* or NonCompilableToken, the error was raised by first_pass, before the end
\* of the source, and nothing has been written to the output; convert_to_bin
\* raises none of them on the scratch stream of a successful first_pass
C29_ErrorsBeforeOutput ==
    [][/\ error'.type \in Pass1Errors =>
              /\ pc = "first_pass"
              /\ src_pos' < Len(source)
              /\ tmp_pos' = 0
              /\ target' = <<>>
       /\ pc = "convert_to_bin" => error' = NoError]_vars

\* first_pass has failed on an unclosed label after it wrote instructions
\* to the scratch stream
C29_Witness ==
    /\ pc = "error"
    /\ error = TokenError("UnclosedLabelError")
    /\ tmp_file # <<>>
    /\ target = <<>>

----------------------------------------------------------------------------
(* Properties of the symbol table under add_alias and add_label (SymSpec) *)

\* the aliases add_alias has allocated
Allocated == DOMAIN aliases \ DOMAIN PREDEF_ALIASES

\* C30: after any sequence of add_alias and add_label calls on a fresh
\* table, each of the 23 predefined aliases maps to its initial address,
\* an allocated alias keeps its address, the allocated addresses are
\* pairwise distinct and at least 16, next_mem_allocation is 16 plus the
\* number of successful add_alias calls, and a failing call changes nothing
C30_TableStable ==
    [][/\ Cardinality(DOMAIN PREDEF_ALIASES) = 23
       /\ \A n \in DOMAIN PREDEF_ALIASES :
              n \in DOMAIN aliases' /\ aliases'[n] = PREDEF_ALIASES[n]
       /\ \A n \in DOMAIN aliases : n \in DOMAIN aliases' /\ aliases'[n] = aliases[n]
       /\ \A n \in DOMAIN aliases' \ DOMAIN PREDEF_ALIASES : aliases'[n] >= START_ALIAS_ADDRESS
       /\ \A n, k \in DOMAIN aliases' \ DOMAIN PREDEF_ALIASES :
              n # k => aliases'[n] # aliases'[k]
       /\ next_mem_allocation = START_ALIAS_ADDRESS + Cardinality(Allocated)
       /\ next_mem_allocation' =
              IF op'.kind = "add_alias" /\ op'.ok
              THEN next_mem_allocation + 1 ELSE next_mem_allocation
       /\ op'.kind = "add_alias" /\ op'.ok =>
              /\ op'.name \notin DOMAIN aliases
              /\ aliases'[op'.name] = next_mem_allocation
       /\ ~op'.ok => aliases' = aliases /\ labels' = labels]_vars

\* two variables and a label were added, then add_alias failed on a name
\* already present and left the cursor where it was
C30_Witness ==
    /\ op.count = 4
    /\ op.kind = "add_alias" /\ ~op.ok
    /\ Cardinality(Allocated) = 2
    /\ next_mem_allocation = START_ALIAS_ADDRESS + 2
    /\ labels # <<>>

====
